---------------------------- MODULE Spec2Model ----------------------------
(***************************************************************************)
(* A model of the face-mask detection service (project9): the Telegram     *)
(* alert dispatcher with its cooldown (src/telegram_bot.py), the analytics *)
(* engine with its cache (src/analytics.py), the per-frame detector        *)
(* (src/detection_engine.py) and the camera capture loop                   *)
(* (src/camera_manager.py).                                                *)
(*                                                                         *)
(* Each component has its own specification (SpecAlert, SpecAnalytics,     *)
(* SpecDetector, SpecCamera); the variables of the other components stay   *)
(* at rest in it.  Time is the wall clock in whole seconds.                *)
(***************************************************************************)
EXTENDS Integers, Sequences, FiniteSets, TLC

VARIABLES
    now,               \* the wall clock: time.time() / datetime.now(), seconds
    \* ---- TelegramBot (telegram_bot.py)
    enabled,           \* self.enabled and bot_token and chat_id are all set
    last_alert_time,   \* self.last_alert_time: alert_key -> time of last dispatch
    messages_sent,     \* self.messages_sent
    failed_messages,   \* self.failed_messages
    alert_table,       \* rows of the alerts table (database.Alert)
    alert_log,         \* history: one record per send_alert call
    \* ---- AnalyticsEngine (analytics.py)
    cache,             \* self.cache: cache_key -> (data, timestamp)
    detection_table,   \* rows of the detections table (database.Detection)
    analytics_last,    \* history: the latest get_analytics / clear_cache call
    \* ---- FaceMaskDetector (detection_engine.py)
    detector_model,    \* self.model is loaded (not None)
    detector_frame,    \* history: the frame process_frame was last called with
    detector_result,   \* the dict process_frame last returned
    \* ---- CameraStream, one per camera id (camera_manager.py)
    buffer_size,       \* Config.BUFFER_SIZE
    cap,               \* self.cap: the state of the capture handle
    is_running,        \* self.is_running
    is_active,         \* self.is_active
    frame_queue,       \* self.frame_queue: the buffered frames, oldest first
    total_frames,      \* self.total_frames
    dropped_frames,    \* self.dropped_frames
    loops,             \* capture threads running _stream_loop
    frames_read,       \* history: successful cap.read() calls
    frames_pulled,     \* history: frames handed out by get_frame
    config_active,     \* the active flag of the camera's descriptor
    start_raised,      \* history: the last start() of the camera raised
    \* ---- DetectionEngine and the processing loop (detection_engine.py,
    \*      start.py)
    queue_size,        \* Config.QUEUE_SIZE
    engine_is_running, \* DetectionEngine.is_running
    engine_frame_queue,\* DetectionEngine.frame_queue: frames waiting, oldest first
    result_queue,      \* DetectionEngine.result_queue: results waiting
    worker_pc,         \* where each worker thread is in _worker_loop
    worker_frame,      \* the frame_data a worker took and is processing
    total_frames_processed, \* DetectionEngine.total_frames_processed
    loop_results,      \* start_processing_loop: results drained, not yet handled
    frames_submitted,  \* history: add_frame calls
    add_frame_last,    \* history: the latest add_frame call
    get_results_last,  \* history: the latest get_results call
    results_obtained,  \* history: results returned by get_results so far
    \* ---- threads in flight: callers inside send_alert / get_analytics, and
    \*      workers inside _update_statistics
    calls,             \* where each caller thread is in the call it is making
    stat_read,         \* the total_frames_processed a worker read for its += 1
    frames_accepted,   \* history: frames add_frame put on the frame queue
    frames_taken,      \* history: frames the workers took off the frame queue
    iterations_finished, \* history: iterations that reached _update_statistics
    \* ---- MQTTClient (mqtt_client.py)
    mqtt_is_connected, \* self.is_connected
    connection_attempts, \* self.connection_attempts
    mqtt_link,         \* the connection of the paho client to the broker
    reconnect_timers,  \* threading.Timer objects started and not yet fired
    mqtt_caller,       \* the caller's latest call: connect() or disconnect()
    attempts_since_success, \* history: connect attempts since the last CONNACK 0
    connect_last,      \* history: the latest connect() call
    \* ---- the capture loops and the processing loop of start.py
    failed_reads,      \* history: cap.read() calls that returned no frame
    loop_passes,       \* history: passes of start_processing_loop
    loop_errors        \* history: passes that ended in "except Exception"

alertVars == <<enabled, last_alert_time, messages_sent, failed_messages, alert_log>>

analyticsVars == <<cache, detection_table, analytics_last>>

detectorVars == <<detector_model, detector_frame, detector_result>>

cameraVars == <<buffer_size, cap, is_running, is_active, frame_queue,
                total_frames, dropped_frames, loops, frames_read, frames_pulled,
                config_active, start_raised>>

engineVars == <<queue_size, engine_is_running, engine_frame_queue,
                result_queue, worker_pc, worker_frame, total_frames_processed,
                loop_results, frames_submitted, add_frame_last,
                get_results_last, results_obtained>>

threadVars == <<calls, stat_read, frames_accepted, frames_taken,
                iterations_finished>>

mqttVars == <<mqtt_is_connected, connection_attempts, mqtt_link,
              reconnect_timers, mqtt_caller, attempts_since_success,
              connect_last>>

loopVars == <<failed_reads, loop_passes, loop_errors>>

vars == <<now, alertVars, alert_table, analyticsVars, detectorVars, cameraVars,
          engineVars, threadVars, mqttVars, loopVars>>

-----------------------------------------------------------------------------
(* Bounds of the model *)

\* send_alert calls explored in one behaviour
MaxCalls == 3

\* Clock readings explored by the alert dispatcher: around one cooldown window
AlertClock == {0, 299, 300, 301, 600}

\* Rows of the detections table explored by the analytics engine
MaxDetections == 1

\* Faces found in one frame
MaxFaces == 3

\* Largest BUFFER_SIZE explored
MaxBufferSize == 2

\* Successful frame reads of one camera explored in one behaviour
MaxFrames == 5

\* Capture threads of one camera explored at a time
MaxLoops == 2

\* Failed frame reads of one camera explored in one behaviour
MaxFailedReads == 2

\* Passes of the processing loop explored in one behaviour
MaxPasses == 2

\* Largest QUEUE_SIZE explored, and add_frame calls explored in one behaviour
MaxQueueSize == 2
MaxSubmitted == 2

\* Worker threads of the engine alive at a time
MaxThreads == 3

\* The pipeline scenario: the frames submitted, and the capacity of the
\* engine's queues
PipelineFrames == 10
PipelineQueueSize == 10

\* Clock readings explored in the pipeline scenario: inside the cooldown
\* window that opens at 0, and its end
PipelineClock == {0, 299, 300}

\* Clock readings explored by the analytics engine: around one cache_ttl, and
\* a day and more later
AnalyticsClock == {3300, 3599, 3600, 89700}

-----------------------------------------------------------------------------
(* Helpers *)

Last(s) == s[Len(s)]

\* dict lookup with a default: d.get(k, default)
Get(d, k, default) == IF k \in DOMAIN d THEN d[k] ELSE default

\* d[k] = v on a Python dict: adds the key or overwrites its value
Put(d, k, v) == [x \in DOMAIN d \cup {k} |-> IF x = k THEN v ELSE d[x]]

\* The empty dict
EmptyDict == [x \in {} |-> 0]

-----------------------------------------------------------------------------
(* The components at rest: their state right after construction *)

\* No get_analytics or clear_cache call has been made yet
NoCall == [op |-> "none", period |-> "", at |-> 0, data |-> EmptyDict,
           from_cache |-> FALSE, age |-> 0, fail |-> "none", after |-> "none"]

AnalyticsAtRest ==
    /\ cache = EmptyDict
    /\ detection_table = <<>>
    /\ analytics_last = NoCall

AlertAtRest ==
    /\ enabled = TRUE
    /\ last_alert_time = EmptyDict
    /\ messages_sent = 0
    /\ failed_messages = 0
    /\ alert_table = <<>>
    /\ alert_log = <<>>

\* The cameras of the configuration
Cameras == {"cam1", "cam2"}

DetectorAtRest ==
    /\ detector_model = TRUE
    /\ detector_frame = EmptyDict
    /\ detector_result = EmptyDict

\* CameraStream.__init__, for every camera
CamerasAtRest ==
    /\ cap = [c \in Cameras |-> "none"]
    /\ is_running = [c \in Cameras |-> FALSE]
    /\ is_active = [c \in Cameras |-> FALSE]
    /\ frame_queue = [c \in Cameras |-> <<>>]
    /\ total_frames = [c \in Cameras |-> 0]
    /\ dropped_frames = [c \in Cameras |-> 0]
    /\ loops = [c \in Cameras |-> 0]
    /\ frames_read = [c \in Cameras |-> 0]
    /\ frames_pulled = [c \in Cameras |-> 0]
    /\ start_raised = [c \in Cameras |-> FALSE]

\* Config.MAX_WORKERS, the worker threads one DetectionEngine.start() spawns:
\* an environment setting, explored with two threads
MAX_WORKERS == 2

\* The worker threads that can exist at a time: the threads of one start()
\* and those still alive from the run before it
Workers == 1..MaxThreads

\* The threads that call into the bot and the analytics engine (the
\* processing loop, the Flask request handlers)
Callers == {"t1", "t2"}

\* No add_frame call and no get_results call has been made yet
NoAddFrame == [called |-> FALSE, appended |-> FALSE, ret |-> "none"]
NoGetResults == [called |-> FALSE, limit |-> 0, returned |-> <<>>,
                 left |-> <<>>]

\* A worker that holds no frame_data
NoFrame == [camera_id |-> "", timestamp |-> 0, frame |-> EmptyDict]

\* DetectionEngine.__init__, and the processing loop before its first pass
EngineAtRest ==
    /\ engine_is_running = FALSE
    /\ engine_frame_queue = <<>>
    /\ result_queue = <<>>
    /\ worker_pc = [w \in Workers |-> "off"]
    /\ worker_frame = [w \in Workers |-> NoFrame]
    /\ total_frames_processed = 0
    /\ loop_results = <<>>
    /\ frames_submitted = 0
    /\ add_frame_last = NoAddFrame
    /\ get_results_last = NoGetResults
    /\ results_obtained = 0

\* No caller is inside a call, no worker is inside _update_statistics
NotCalling == [pc |-> "idle"]
ThreadsAtRest ==
    /\ calls = [t \in Callers |-> NotCalling]
    /\ stat_read = [w \in Workers |-> 0]
    /\ frames_accepted = 0
    /\ frames_taken = 0
    /\ iterations_finished = 0

\* MQTTClient.__init__ with a broker configured: the paho client is set up
\* and nothing has been asked of it
NoConnect == [called |-> FALSE, by |-> "none", raised |-> FALSE]
MqttAtRest ==
    /\ mqtt_is_connected = FALSE
    /\ connection_attempts = 0
    /\ mqtt_link = "down"
    /\ reconnect_timers = 0
    /\ mqtt_caller = "none"
    /\ attempts_since_success = 0
    /\ connect_last = NoConnect

\* No capture loop has read and the processing loop has made no pass
LoopsAtRest ==
    /\ failed_reads = [c \in Cameras |-> 0]
    /\ loop_passes = 0
    /\ loop_errors = 0

-----------------------------------------------------------------------------
(* TelegramBot *)

\* Config.ALERT_COOLDOWN, seconds
ALERT_COOLDOWN == 300

\* The callers' arguments explored.  "cam1_x"/"violation" and
\* "cam1"/"x_violation" are distinct pairs that format to one alert_key.
CameraIds == {"cam1", "cam1_x"}
AlertTypes == {"violation", "x_violation"}
Severities == {"high"}

\* What requests.post can come back with in send_message
Responses == {"ok", "api_error", "http_error", "exception"}

\* alert_key = f"{camera_id}_{alert_type}"
AlertKey(camera_id, alert_type) == camera_id \o "_" \o alert_type

\* The cooldown test of send_alert: the key has an entry and less than
\* alert_cooldown seconds have passed since it
CooldownActive_Off(lat, alert_key, current_time) == FALSE
CooldownActive_Inclusive(lat, alert_key, current_time) ==
    /\ alert_key \in DOMAIN lat
    /\ current_time - lat[alert_key] <= ALERT_COOLDOWN
CooldownActive(lat, alert_key, current_time) ==
    /\ alert_key \in DOMAIN lat
    /\ current_time - lat[alert_key] < ALERT_COOLDOWN

\* send_message's early return: nothing is posted unless the bot is configured
SendMessageAttempts(en) == en

\* send_message's result for a posted message
SendMessageOk(response) == response = "ok"

\* The cooldown entry after send_message returned `success`
RecordDispatch_Always(lat, alert_key, current_time, success) ==
    Put(lat, alert_key, current_time)
RecordDispatch_Never(lat, alert_key, current_time, success) == lat
RecordDispatch(lat, alert_key, current_time, success) ==
    IF success THEN Put(lat, alert_key, current_time) ELSE lat

\* _save_alert: one row, unless the session raises (caught and logged)
SaveAlert_Nothing(table, camera_id, alert_type, severity, db_ok) == table
SaveAlert(table, camera_id, alert_type, severity, db_ok) ==
    IF db_ok
    THEN Append(table, [camera_id |-> camera_id, alert_type |-> alert_type,
                        severity |-> severity, timestamp |-> now])
    ELSE table

\* The branch of send_alert taken inside the cooldown window: return False
SendAlertSuppressed_Counted(camera_id, alert_type) ==
    /\ alert_log' = Append(alert_log,
           [camera_id |-> camera_id, alert_type |-> alert_type, at |-> now,
            handed |-> FALSE, ret |-> FALSE])
    /\ failed_messages' = failed_messages + 1
    /\ UNCHANGED <<enabled, last_alert_time, messages_sent, alert_table>>
SendAlertSuppressed(camera_id, alert_type) ==
    /\ alert_log' = Append(alert_log,
           [camera_id |-> camera_id, alert_type |-> alert_type, at |-> now,
            handed |-> FALSE, ret |-> FALSE])
    /\ UNCHANGED <<enabled, last_alert_time, messages_sent, failed_messages,
                   alert_table>>

\* The rest of send_alert: format, send_message, and on success the cooldown
\* entry and the saved row
SendAlertDispatch(camera_id, alert_type, severity, response, db_ok) ==
    LET alert_key == AlertKey(camera_id, alert_type)
        current_time == now
        posted == SendMessageAttempts(enabled)
        success == posted /\ SendMessageOk(response)
    IN  /\ messages_sent' = IF success THEN messages_sent + 1 ELSE messages_sent
        /\ failed_messages' = IF posted /\ ~success THEN failed_messages + 1
                              ELSE failed_messages
        /\ last_alert_time' =
               RecordDispatch(last_alert_time, alert_key, current_time, success)
        /\ alert_table' = IF success
                          THEN SaveAlert(alert_table, camera_id, alert_type,
                                         severity, db_ok)
                          ELSE alert_table
        /\ alert_log' = Append(alert_log,
               [camera_id |-> camera_id, alert_type |-> alert_type,
                at |-> current_time, handed |-> TRUE, ret |-> success])
        /\ UNCHANGED enabled

\* The body of send_alert: the cooldown test and the branch it selects
SendAlertBody(camera_id, alert_type, severity, response, db_ok) ==
    IF CooldownActive(last_alert_time, AlertKey(camera_id, alert_type), now)
    THEN SendAlertSuppressed(camera_id, alert_type)
    ELSE SendAlertDispatch(camera_id, alert_type, severity, response, db_ok)

\* TelegramBot.send_alert(alert_type, camera_id, message, severity)
SendAlert(camera_id, alert_type, severity, response, db_ok) ==
    /\ Len(alert_log) < MaxCalls
    /\ SendAlertBody(camera_id, alert_type, severity, response, db_ok)
    /\ UNCHANGED <<now, analyticsVars, detectorVars, mqttVars, loopVars, threadVars, cameraVars, engineVars>>

\* The wall clock moves on between calls
TickAlert ==
    /\ \E t \in AlertClock : t > now /\ now' = t
    /\ UNCHANGED <<alertVars, alert_table, analyticsVars, detectorVars, mqttVars, loopVars, threadVars,
                   cameraVars, engineVars>>

\* TelegramBot.__init__
InitAlert ==
    /\ now = 0
    /\ enabled \in BOOLEAN
    /\ last_alert_time = EmptyDict
    /\ messages_sent = 0
    /\ failed_messages = 0
    /\ alert_table = <<>>
    /\ alert_log = <<>>
    /\ AnalyticsAtRest
    /\ DetectorAtRest
    /\ buffer_size = 1
    /\ config_active = [c \in Cameras |-> TRUE]
    /\ CamerasAtRest
    /\ queue_size = 1
    /\ EngineAtRest
    /\ ThreadsAtRest
    /\ MqttAtRest
    /\ LoopsAtRest

AlertCall ==
    \E camera_id \in CameraIds, alert_type \in AlertTypes,
       severity \in Severities, response \in Responses, db_ok \in BOOLEAN :
        SendAlert(camera_id, alert_type, severity, response, db_ok)

NextAlert == AlertCall \/ TickAlert

SpecAlert == InitAlert /\ [][NextAlert]_vars

-----------------------------------------------------------------------------
(* Claims about the alert dispatcher, checked under SpecAlert *)

\* The alert_key a logged call was made for
LoggedKey(r) == r.camera_id \o "_" \o r.alert_type

\* The logged calls, by position
AlertCalls == 1..Len(alert_log)

\* C1: any two alerts dispatched (send_message returned True) for one
\* alert_key have dispatch times at least ALERT_COOLDOWN apart.
C1_DispatchesSpaced ==
    \A i, j \in AlertCalls :
        ( /\ i < j
          /\ alert_log[i].ret
          /\ alert_log[j].ret
          /\ LoggedKey(alert_log[i]) = LoggedKey(alert_log[j]) )
        => alert_log[j].at - alert_log[i].at >= ALERT_COOLDOWN

\* Two alerts were dispatched for one key, a cooldown window or more apart
C1_Witness ==
    \E i, j \in AlertCalls :
        /\ i < j
        /\ alert_log[i].ret
        /\ alert_log[j].ret
        /\ LoggedKey(alert_log[i]) = LoggedKey(alert_log[j])
        /\ alert_log[j].at > alert_log[i].at

\* The behaviour so far is two send_alert calls for one (source, kind), with a
\* notifier that succeeded whenever it was asked
TwoCallsNotifierUp ==
    /\ enabled
    /\ Len(alert_log) = 2
    /\ alert_log[1].camera_id = alert_log[2].camera_id
    /\ alert_log[1].alert_type = alert_log[2].alert_type
    /\ \A i \in AlertCalls : alert_log[i].handed => alert_log[i].ret

\* Number of logged calls that were handed to send_message
HandedCount == Cardinality({i \in AlertCalls : alert_log[i].handed})

\* C2: two calls for one (source, kind) at t0 and t0+D with a succeeding
\* notifier hand over one notification when D < W and two when D >= W.
C2_OneOrTwoNotifications ==
    TwoCallsNotifierUp =>
        HandedCount = IF alert_log[2].at - alert_log[1].at < ALERT_COOLDOWN
                      THEN 1 ELSE 2

\* The boundary case: the second call comes exactly W after the first
C2_Witness ==
    /\ TwoCallsNotifierUp
    /\ alert_log[2].at - alert_log[1].at = ALERT_COOLDOWN
    /\ HandedCount = 2

\* This step is a send_alert call (it adds one record to the history)
IsAlertCallStep == Len(alert_log') = Len(alert_log) + 1

\* A call whose hand-off failed is followed, for the same key, by a call that
\* is handed to the notifier again
C3_RetriedNotSuppressed ==
    \A i \in AlertCalls :
        ( /\ i + 1 \in AlertCalls
          /\ alert_log[i].handed
          /\ ~alert_log[i].ret
          /\ LoggedKey(alert_log[i + 1]) = LoggedKey(alert_log[i]) )
        => alert_log[i + 1].handed

\* A call whose hand-off failed leaves last_alert_time as it was
C3_FailureKeepsEntry ==
    ( /\ IsAlertCallStep
      /\ Last(alert_log').handed
      /\ ~Last(alert_log').ret )
    => last_alert_time' = last_alert_time

\* C3: a failed notifier hand-off leaves last_alert_time unchanged, and the
\* next send_alert for the same key is handed to the notifier, not suppressed.
C3_FailedHandOffRetried ==
    [](C3_RetriedNotSuppressed) /\ [][C3_FailureKeepsEntry]_vars

\* A failed hand-off was followed at once by a retry for the same key, on a
\* key that already had a cooldown entry
C3_Witness ==
    \E i \in AlertCalls :
        /\ i > 1
        /\ i + 1 \in AlertCalls
        /\ alert_log[i - 1].ret
        /\ alert_log[i].handed
        /\ ~alert_log[i].ret
        /\ LoggedKey(alert_log[i - 1]) = LoggedKey(alert_log[i])
        /\ LoggedKey(alert_log[i + 1]) = LoggedKey(alert_log[i])
        /\ alert_log[i + 1].at = alert_log[i].at
        /\ alert_log[i + 1].handed

\* The call made in this step falls inside the cooldown window of its key
CallInsideWindow ==
    /\ IsAlertCallStep
    /\ LoggedKey(Last(alert_log')) \in DOMAIN last_alert_time
    /\ now - last_alert_time[LoggedKey(Last(alert_log'))] < ALERT_COOLDOWN

\* C4: a send_alert call inside the cooldown window of its key returns False
\* and changes nothing: nothing is handed to the notifier, and the cooldown
\* entries, both counters and the saved alerts stay as they were.
C4_SuppressedCallIsInert ==
    [][ CallInsideWindow =>
          /\ ~Last(alert_log').ret
          /\ ~Last(alert_log').handed
          /\ UNCHANGED <<enabled, last_alert_time, messages_sent,
                         failed_messages, alert_table, now>> ]_vars

\* A call was made inside the cooldown window: after a dispatch for the same
\* key, less than a window later
C4_Witness ==
    \E i, j \in AlertCalls :
        /\ i < j
        /\ alert_log[i].ret
        /\ LoggedKey(alert_log[i]) = LoggedKey(alert_log[j])
        /\ alert_log[j].at - alert_log[i].at < ALERT_COOLDOWN
        /\ ~alert_log[j].handed

-----------------------------------------------------------------------------
(* AnalyticsEngine *)

\* self.cache_ttl, seconds
cache_ttl == 300

\* datetime arithmetic: seconds in a day and in an hour
SecondsPerDay == 86400
SecondsPerHour == 3600

\* The periods asked for
Periods == {"today", "week"}

\* The sources and the per-frame counts of the detection rows explored
DetectionCameras == {"cam1", "cam2"}
DetectionCounts ==
    { [face_count |-> 0, mask_count |-> 0, no_mask_count |-> 0],
      [face_count |-> 3, mask_count |-> 1, no_mask_count |-> 1] }

\* The cameras table: id -> name
CameraNames == [c \in {"cam1"} |-> "Entrance"]

\* Where a recomputation can raise: nowhere, in get_analytics itself (session,
\* detection or alert query), in _get_camera_statistics, in
\* _get_hourly_statistics
FailModes == {"none", "history"}

\* cache_key = f"analytics_{period}"
CacheKey(period) == "analytics_" \o period

\* timedelta.seconds: the seconds field of a timedelta, the days left out
TimedeltaSeconds(delta) == delta % SecondsPerDay

\* The freshness test of get_analytics on a cache entry
CacheFresh_Never(current, timestamp) == FALSE
CacheFresh(current, timestamp) ==
    TimedeltaSeconds(current - timestamp) < cache_ttl

\* start_date of a period ending at end_date
StartDate(period, end_date) ==
    CASE period = "today" -> end_date - (end_date % SecondsPerDay)
      [] period = "week"  -> end_date - 7 * SecondsPerDay
      [] period = "month" -> end_date - 30 * SecondsPerDay
      [] OTHER            -> end_date - SecondsPerDay

\* The rows (by position) with start_date <= timestamp <= end_date
InRange(rows, start_date, end_date) ==
    {i \in 1..Len(rows) :
        rows[i].timestamp >= start_date /\ rows[i].timestamp <= end_date}

\* sum(d.<column> for d in detections)
RECURSIVE SumColumn(_, _, _)
SumColumn(rows, idx, column) ==
    IF idx = {} THEN 0
    ELSE LET i == CHOOSE k \in idx : TRUE
         IN  rows[i][column] + SumColumn(rows, idx \ {i}, column)

\* count / total * 100: an exact fraction, or a ZeroDivisionError
Percent(count, total) ==
    IF total = 0 THEN [raised |-> TRUE, num |-> 0, den |-> 1]
    ELSE [raised |-> FALSE, num |-> count * 100, den |-> total]

\* (count / total * 100) if total > 0 else 0
Rate_Unguarded(count, total) == Percent(count, total)
Rate(count, total) ==
    IF total > 0 THEN Percent(count, total)
    ELSE [raised |-> FALSE, num |-> 0, den |-> 1]

\* round(x, 2) of a fraction x >= 0, in hundredths (ties go to the even digit)
Round2(x) ==
    LET scaled == x.num * 100
        q == scaled \div x.den
        r == scaled % x.den
    IN  IF 2 * r < x.den THEN q
        ELSE IF 2 * r > x.den THEN q + 1
        ELSE IF q % 2 = 0 THEN q ELSE q + 1

\* The totals and rates of a group of detection rows
GroupTotals(rows, idx) ==
    LET total_faces == SumColumn(rows, idx, "face_count")
        total_masks == SumColumn(rows, idx, "mask_count")
        total_violations == SumColumn(rows, idx, "no_mask_count")
        mask_rate == Rate(total_masks, total_faces)
        violation_rate == Rate(total_violations, total_faces)
    IN  [raised |-> mask_rate.raised \/ violation_rate.raised,
         detections |-> Cardinality(idx),
         total_faces |-> total_faces,
         total_masks |-> total_masks,
         total_violations |-> total_violations,
         mask_rate |-> Round2(mask_rate),
         violation_rate |-> Round2(violation_rate)]

\* _get_camera_statistics: one row per camera that has detections in range
\* (the order of the rows is the database's and is left out); [] on an error
CameraStatistics(rows, idx, fail) ==
    LET groups == { [camera_id |-> c,
                     name |-> Get(CameraNames, c, "Unknown"),
                     totals |-> GroupTotals(rows,
                                   {i \in idx : rows[i].camera_id = c})] :
                    c \in {rows[i].camera_id : i \in idx} }
    IN  IF fail = "camera_stats" \/ \E g \in groups : g.totals.raised
        THEN {}
        ELSE groups

\* func.extract('hour', timestamp)
HourOf(timestamp) == (timestamp % SecondsPerDay) \div SecondsPerHour

\* The hours of a set, ascending: hourly_stats.sort(key=hour)
RECURSIVE SortedHours(_)
SortedHours(hours) ==
    IF hours = {} THEN <<>>
    ELSE LET h == CHOOSE x \in hours : \A y \in hours : x <= y
         IN  <<h>> \o SortedHours(hours \ {h})

\* _get_hourly_statistics: one row per hour of day that has detections in
\* range, sorted by hour; [] on an error
HourlyStatistics(rows, idx, fail) ==
    LET hours == SortedHours({HourOf(rows[i].timestamp) : i \in idx})
        stats == [k \in 1..Len(hours) |->
                     [hour |-> hours[k],
                      totals |-> GroupTotals(rows,
                          {i \in idx : HourOf(rows[i].timestamp) = hours[k]})]]
    IN  IF fail = "hourly" \/ \E k \in 1..Len(hours) : stats[k].totals.raised
        THEN <<>>
        ELSE stats

\* _group_alerts_by_type / _group_alerts_by_severity: value -> count
GroupAlerts(rows, idx, column) ==
    [v \in {rows[i][column] : i \in idx} |->
        Cardinality({i \in idx : rows[i][column] = v})]

\* The body of get_analytics past the cache check: the snapshot computed at
\* end_date, or {} when something raised
ComputeAnalytics(period, end_date, detections, alerts, fail) ==
    LET start_date == StartDate(period, end_date)
        idx == InRange(detections, start_date, end_date)
        summary == GroupTotals(detections, idx)
        aidx == InRange(alerts, start_date, end_date)
    IN  IF fail = "history" \/ summary.raised
        THEN EmptyDict
        ELSE [period |-> period,
              start_date |-> start_date,
              end_date |-> end_date,
              summary |-> summary,
              camera_statistics |-> CameraStatistics(detections, idx, fail),
              hourly_breakdown |-> HourlyStatistics(detections, idx, fail),
              alerts |-> [total |-> Cardinality(aidx),
                          by_type |-> GroupAlerts(alerts, aidx, "alert_type"),
                          by_severity |-> GroupAlerts(alerts, aidx, "severity")]]

\* The cache after the computation: the write at the end of the try block is
\* reached only when nothing raised
CacheAfterCompute_Always(c, cache_key, analytics_data, at) ==
    Put(c, cache_key, [data |-> analytics_data, timestamp |-> at])
CacheAfterCompute(c, cache_key, analytics_data, at) ==
    IF analytics_data = EmptyDict THEN c
    ELSE Put(c, cache_key, [data |-> analytics_data, timestamp |-> at])

\* AnalyticsEngine.get_analytics(period)
GetAnalytics(period, fail) ==
    LET cache_key == CacheKey(period)
        hit == /\ cache_key \in DOMAIN cache
               /\ CacheFresh(now, cache[cache_key].timestamp)
        analytics_data ==
            ComputeAnalytics(period, now, detection_table, alert_table, fail)
    IN  /\ IF hit
           THEN /\ analytics_last' =
                       [op |-> "get_analytics", period |-> period, at |-> now,
                        data |-> cache[cache_key].data, from_cache |-> TRUE,
                        age |-> now - cache[cache_key].timestamp,
                        fail |-> "none", after |-> analytics_last.op]
                /\ UNCHANGED cache
           ELSE /\ analytics_last' =
                       [op |-> "get_analytics", period |-> period, at |-> now,
                        data |-> analytics_data, from_cache |-> FALSE,
                        age |-> 0, fail |-> fail,
                        after |-> analytics_last.op]
                /\ cache' = CacheAfterCompute(cache, cache_key,
                                              analytics_data, now)
        /\ UNCHANGED <<now, alertVars, alert_table, detection_table,
                       detectorVars, mqttVars, loopVars, threadVars, cameraVars, engineVars>>

\* self.cache.clear()
ClearedCache_Kept(c) == c
ClearedCache(c) == EmptyDict

\* AnalyticsEngine.clear_cache()
ClearCache ==
    /\ cache' = ClearedCache(cache)
    /\ analytics_last' =
           [op |-> "clear_cache", period |-> "", at |-> now,
            data |-> EmptyDict, from_cache |-> FALSE, age |-> 0,
            fail |-> "none", after |-> analytics_last.op]
    /\ UNCHANGED <<now, alertVars, alert_table, detection_table,
                   detectorVars, mqttVars, loopVars, threadVars, cameraVars, engineVars>>

\* DetectionEngine._save_detection adds a row to the detections table
DetectionSaved(camera_id, counts) ==
    /\ Len(detection_table) < MaxDetections
    /\ detection_table' = Append(detection_table,
           [camera_id |-> camera_id, timestamp |-> now,
            face_count |-> counts.face_count,
            mask_count |-> counts.mask_count,
            no_mask_count |-> counts.no_mask_count])
    /\ UNCHANGED <<now, alertVars, alert_table, cache, analytics_last,
                   detectorVars, mqttVars, loopVars, threadVars, cameraVars, engineVars>>

\* TelegramBot._save_alert adds a row to the alerts table: the violation alert
\* that _process_detection_result raises for a detection with no_mask_count > 0
AlertSaved(camera_id, alert_type, severity) ==
    /\ Len(alert_table) <
           Cardinality({i \in 1..Len(detection_table) :
                           /\ detection_table[i].camera_id = camera_id
                           /\ detection_table[i].no_mask_count > 0})
    /\ alert_table' = SaveAlert(alert_table, camera_id, alert_type, severity, TRUE)
    /\ UNCHANGED <<now, alertVars, analyticsVars, detectorVars, mqttVars, loopVars, threadVars, cameraVars, engineVars>>

\* The wall clock moves on between calls
TickAnalytics ==
    /\ \E t \in AnalyticsClock : t > now /\ now' = t
    /\ UNCHANGED <<alertVars, alert_table, analyticsVars, detectorVars, mqttVars, loopVars, threadVars,
                   cameraVars, engineVars>>

\* AnalyticsEngine.__init__, with the bot and the tables untouched
InitAnalytics ==
    /\ now = 3300
    /\ AlertAtRest
    /\ AnalyticsAtRest
    /\ DetectorAtRest
    /\ buffer_size = 1
    /\ config_active = [c \in Cameras |-> TRUE]
    /\ CamerasAtRest
    /\ queue_size = 1
    /\ EngineAtRest
    /\ ThreadsAtRest
    /\ MqttAtRest
    /\ LoopsAtRest

AnalyticsQuery == \E period \in Periods, fail \in FailModes : GetAnalytics(period, fail)

DetectionWrite ==
    \E camera_id \in DetectionCameras, counts \in DetectionCounts :
        DetectionSaved(camera_id, counts)

AlertWrite ==
    \E camera_id \in DetectionCameras : AlertSaved(camera_id, "violation", "high")

NextAnalytics ==
    AnalyticsQuery \/ ClearCache \/ DetectionWrite \/ AlertWrite \/ TickAnalytics

SpecAnalytics == InitAnalytics /\ [][NextAnalytics]_vars

-----------------------------------------------------------------------------
(* Claims about the analytics engine, checked under SpecAnalytics *)

\* This step is a get_analytics call
IsQueryStep ==
    /\ analytics_last' # analytics_last
    /\ analytics_last'.op = "get_analytics"

\* C5: get_analytics never returns a cached snapshot whose age is cache_ttl
\* or more, however large the age.
C5_StaleNeverReturned ==
    analytics_last.from_cache => analytics_last.age < cache_ttl

\* The call made in this step follows, within cache_ttl and with no
\* clear_cache in between, a call for the same period that succeeded
SecondCallWithinTtl ==
    /\ analytics_last.op = "get_analytics"
    /\ analytics_last.data # EmptyDict
    /\ IsQueryStep
    /\ analytics_last'.period = analytics_last.period
    /\ analytics_last'.at - analytics_last.at < cache_ttl

\* The second call returns the first call's snapshot, and from the cache
SameSnapshotNoRecompute ==
    /\ analytics_last'.data = analytics_last.data
    /\ analytics_last'.from_cache

\* C6 as stated: two calls for one period within cache_ttl of each other, the
\* first of which succeeded, return the identical snapshot, the second without
\* recomputing.
C6_AsStated == [][SecondCallWithinTtl => SameSnapshotNoRecompute]_vars

\* C6 amended: two calls for one period within cache_ttl of each other with no
\* clear_cache in between, the first of which computed its snapshot (missed
\* the cache) and succeeded, return the identical snapshot, the second without
\* recomputing, even if the tables changed in between.
C6_WithinTtlOfComputation ==
    [][ (SecondCallWithinTtl /\ ~analytics_last.from_cache)
          => SameSnapshotNoRecompute ]_vars

\* A call was served from the cache, some time after the snapshot was
\* computed, although a recomputation would have given other totals
C6_Witness ==
    /\ analytics_last.op = "get_analytics"
    /\ analytics_last.after = "get_analytics"
    /\ analytics_last.from_cache
    /\ analytics_last.age > 0
    /\ analytics_last.age < cache_ttl
    /\ now = analytics_last.at
    /\ ComputeAnalytics(analytics_last.period, now, detection_table,
                        alert_table, "none").summary
         # analytics_last.data.summary

\* After clear_cache the cache is empty
C7_ClearedIsEmpty == analytics_last.op = "clear_cache" => cache = EmptyDict

\* The get_analytics call that follows clear_cache recomputes from the tables
\* as they are
C7_NextCallRecomputes ==
    (analytics_last.op = "clear_cache" /\ IsQueryStep)
    => /\ ~analytics_last'.from_cache
       /\ analytics_last'.data =
              ComputeAnalytics(analytics_last'.period, now, detection_table,
                               alert_table, analytics_last'.fail)

\* C7: after clear_cache() the cache is empty and the next get_analytics call,
\* for any period, recomputes from the current history.
C7_ClearForcesRecompute ==
    [](C7_ClearedIsEmpty) /\ [][C7_NextCallRecomputes]_vars

\* A call right after clear_cache computed a snapshot
C7_Witness ==
    /\ analytics_last.op = "get_analytics"
    /\ analytics_last.after = "clear_cache"
    /\ ~analytics_last.from_cache
    /\ analytics_last.data # EmptyDict
    /\ analytics_last.data.summary.detections > 0

\* Totals with no faces carry zero rates
ZeroFacesZeroRates(totals) ==
    totals.total_faces = 0 =>
        (totals.mask_rate = 0 /\ totals.violation_rate = 0)

\* C8: when the detections of the period sum to total_faces = 0, get_analytics
\* raises no division-by-zero error (a recomputation whose queries succeed
\* returns a snapshot), and mask_rate and violation_rate are 0 in the summary
\* and in every per-camera and per-hour row.
C8_ZeroFacesZeroRates ==
    LET d == analytics_last.data
    IN  /\ ( /\ analytics_last.op = "get_analytics"
             /\ ~analytics_last.from_cache
             /\ analytics_last.fail # "history" )
           => d # EmptyDict
        /\ (analytics_last.op = "get_analytics" /\ d # EmptyDict)
           => /\ ZeroFacesZeroRates(d.summary)
              /\ \A row \in d.camera_statistics : ZeroFacesZeroRates(row.totals)
              /\ \A k \in 1..Len(d.hourly_breakdown) :
                     ZeroFacesZeroRates(d.hourly_breakdown[k].totals)

\* A snapshot was computed over a detection that saw no face
C8_Witness ==
    /\ analytics_last.op = "get_analytics"
    /\ ~analytics_last.from_cache
    /\ analytics_last.data # EmptyDict
    /\ analytics_last.data.summary.detections > 0
    /\ analytics_last.data.summary.total_faces = 0
    /\ \E row \in analytics_last.data.camera_statistics :
           row.totals.total_faces = 0 /\ row.totals.mask_rate = 0
    /\ Len(analytics_last.data.hourly_breakdown) > 0

-----------------------------------------------------------------------------
(* FaceMaskDetector *)

\* Config.CONFIDENCE_THRESHOLD and the skin share of _basic_mask_detection,
\* in percent
CONFIDENCE_THRESHOLD == 80
SkinThreshold == 30

\* What the classifier makes of one face: a score in percent (the model's
\* prediction, or the skin share when no model is loaded), or a fault (an
\* error raised while the face is processed)
FaceReadings == { [score |-> 10, fault |-> FALSE],
                  [score |-> 80, fault |-> FALSE],
                  [score |-> 90, fault |-> FALSE],
                  [score |-> 0, fault |-> TRUE] }

\* The frames explored: unreadable ones (detect_faces raises), and readable
\* ones with up to MaxFaces faces
Frames ==
    { [readable |-> FALSE, faces |-> <<>>] } \cup
    { [readable |-> TRUE, faces |-> f] :
        f \in UNION { [1..n -> FaceReadings] : n \in 0..MaxFaces } }

\* predict_mask: (mask_status, confidence), or an error that propagates.
\* With a model every error is caught and gives ("unknown", 0.0); without
\* one _basic_mask_detection runs outside any try.
PredictMask(model_loaded, face) ==
    IF model_loaded
    THEN IF face.fault
         THEN [raised |-> FALSE, mask_status |-> "unknown", confidence |-> 0]
         ELSE IF face.score > CONFIDENCE_THRESHOLD
              THEN [raised |-> FALSE, mask_status |-> "mask",
                    confidence |-> face.score]
              ELSE [raised |-> FALSE, mask_status |-> "no_mask",
                    confidence |-> 100 - face.score]
    ELSE IF face.fault
         THEN [raised |-> TRUE, mask_status |-> "", confidence |-> 0]
         ELSE IF face.score > SkinThreshold
              THEN [raised |-> FALSE, mask_status |-> "no_mask",
                    confidence |-> face.score]
              ELSE [raised |-> FALSE, mask_status |-> "mask",
                    confidence |-> 100 - face.score]

\* The results dict process_frame starts from
EmptyResults ==
    [faces_detected |-> 0, masks_detected |-> 0, no_masks_detected |-> 0,
     detections |-> <<>>, confidence_score |-> [num |-> 0, den |-> 1]]

\* The per-face loop of process_frame from face i on; an error leaves the
\* loop through the except branch with the results as they stand
RECURSIVE FaceLoop(_, _, _, _, _)
FaceLoop(model_loaded, results, total_confidence, faces, i) ==
    IF i > Len(faces)
    THEN [results EXCEPT !.confidence_score =
              [num |-> total_confidence, den |-> Len(faces)]]
    ELSE LET p == PredictMask(model_loaded, faces[i])
             counted ==
                 [results EXCEPT
                    !.detections = Append(@, [bbox |-> i,
                                              mask_status |-> p.mask_status,
                                              confidence |-> p.confidence]),
                    !.masks_detected =
                        IF p.mask_status = "mask" THEN @ + 1 ELSE @,
                    !.no_masks_detected =
                        IF p.mask_status = "no_mask" THEN @ + 1 ELSE @]
         IN  IF p.raised THEN results
             ELSE FaceLoop(model_loaded, counted,
                           total_confidence + p.confidence, faces, i + 1)

\* FaceMaskDetector.process_frame(frame)
ProcessFrame(model_loaded, frame) ==
    IF ~frame.readable THEN EmptyResults
    ELSE LET found == [EmptyResults EXCEPT !.faces_detected = Len(frame.faces)]
         IN  IF Len(frame.faces) = 0 THEN found
             ELSE FaceLoop(model_loaded, found, 0, frame.faces, 1)

\* DetectionEngine.process_single_frame(frame)
ProcessSingleFrame(frame) ==
    /\ detector_frame' = frame
    /\ detector_result' = ProcessFrame(detector_model, frame)
    /\ UNCHANGED <<now, alertVars, alert_table, analyticsVars, threadVars, mqttVars, loopVars, detector_model,
                   cameraVars, engineVars>>

\* FaceMaskDetector.__init__: the mask model is found on disk or is not
InitDetector ==
    /\ now = 0
    /\ AlertAtRest
    /\ AnalyticsAtRest
    /\ detector_model \in BOOLEAN
    /\ detector_frame = EmptyDict
    /\ detector_result = EmptyDict
    /\ buffer_size = 1
    /\ config_active = [c \in Cameras |-> TRUE]
    /\ CamerasAtRest
    /\ queue_size = 1
    /\ EngineAtRest
    /\ ThreadsAtRest
    /\ MqttAtRest
    /\ LoopsAtRest

NextDetector == \E frame \in Frames : ProcessSingleFrame(frame)

SpecDetector == InitDetector /\ [][NextDetector]_vars

-----------------------------------------------------------------------------
(* Claims about the detector, checked under SpecDetector *)

\* The faces of a result that are labelled unknown
UnknownCount(results) ==
    Cardinality({k \in 1..Len(results.detections) :
                    results.detections[k].mask_status = "unknown"})

\* C9: every result of process_frame has masks_detected + no_masks_detected
\* + (faces labelled unknown) = faces_detected, an exception raised part-way
\* through the per-face loop included.
C9_CountsAddUp ==
    detector_result # EmptyDict =>
        detector_result.masks_detected + detector_result.no_masks_detected
          + UnknownCount(detector_result) = detector_result.faces_detected

-----------------------------------------------------------------------------
(* CameraStream *)

\* queue.Queue.full(): a maxsize of 0 or less means no limit
QueueFull_OffByOne(q, maxsize) == maxsize > 0 /\ Len(q) > maxsize
QueueFull(q, maxsize) == maxsize > 0 /\ Len(q) >= maxsize

\* queue.Queue.put_nowait(item): the queue afterwards.  A full queue raises
\* queue.Full and stays as it is
PutNowait_EvictOldest(q, maxsize, item) ==
    IF QueueFull(q, maxsize) THEN Append(Tail(q), item) ELSE Append(q, item)
PutNowait_ReplaceNewest(q, maxsize, item) ==
    IF QueueFull(q, maxsize) THEN Append(SubSeq(q, 1, Len(q) - 1), item)
    ELSE Append(q, item)
PutNowait(q, maxsize, item) ==
    IF QueueFull(q, maxsize) THEN q ELSE Append(q, item)

\* CameraStream.start(): open the capture handle (camera_type is 'ip' or
\* 'rpi'); raise if it did not open, else set the flags and spawn a capture
\* thread.  Nothing in it looks at is_running first.
Start(c, opened) ==
    /\ loops[c] < MaxLoops
    /\ cap' = [cap EXCEPT ![c] = IF opened THEN "open" ELSE "closed"]
    /\ start_raised' = [start_raised EXCEPT ![c] = ~opened]
    /\ IF opened
       THEN /\ is_running' = [is_running EXCEPT ![c] = TRUE]
            /\ is_active' = [is_active EXCEPT ![c] = TRUE]
            /\ loops' = [loops EXCEPT ![c] = @ + 1]
       ELSE UNCHANGED <<is_running, is_active, loops>>
    /\ UNCHANGED <<now, alertVars, alert_table, analyticsVars, detectorVars, mqttVars, loopVars, threadVars,
                   engineVars, config_active, buffer_size, frame_queue,
                   total_frames, dropped_frames, frames_read, frames_pulled>>

\* A stop that leaves the handle as it is
ReleasedHandle_Kept(h) == h

\* "if self.cap: self.cap.release()": the handle afterwards
ReleasedHandle(h) == IF h = "none" THEN h ELSE "released"

\* CameraStream.stop(): clear the flag and release the handle, if there is one
Stop(c) ==
    /\ is_running' = [is_running EXCEPT ![c] = FALSE]
    /\ cap' = [cap EXCEPT ![c] = ReleasedHandle(@)]
    /\ UNCHANGED <<now, alertVars, alert_table, analyticsVars, detectorVars, mqttVars, loopVars, threadVars,
                   engineVars, config_active, start_raised, buffer_size,
                   is_active, frame_queue, total_frames, dropped_frames, loops,
                   frames_read, frames_pulled>>

\* A loop that a failed read ends
LoopsAfterFailedRead_Exits(n) == n - 1

\* The capture threads of a camera after one of them got ret = False from
\* cap.read(): "if ret" skips the put, and the while loop goes on
LoopsAfterFailedRead(n) == n

\* One pass of a capture thread through _stream_loop: leave when is_running
\* is off; else read a frame and, if that worked, put it without blocking
\* (total_frames counts the frames put, dropped_frames those refused)
StreamLoop(c, ret) ==
    /\ loops[c] > 0
    /\ IF ~is_running[c]
       THEN /\ loops' = [loops EXCEPT ![c] = @ - 1]
            /\ UNCHANGED <<frame_queue, total_frames, dropped_frames,
                           frames_read, failed_reads>>
       ELSE IF ret /\ cap[c] = "open"
       THEN /\ frames_read[c] < MaxFrames
            /\ frames_read' = [frames_read EXCEPT ![c] = @ + 1]
            /\ frame_queue' =
                   [frame_queue EXCEPT
                      ![c] = PutNowait(@, buffer_size, frames_read[c] + 1)]
            /\ IF QueueFull(frame_queue[c], buffer_size)
               THEN /\ dropped_frames' = [dropped_frames EXCEPT ![c] = @ + 1]
                    /\ UNCHANGED total_frames
               ELSE /\ total_frames' = [total_frames EXCEPT ![c] = @ + 1]
                    /\ UNCHANGED dropped_frames
            /\ UNCHANGED <<loops, failed_reads>>
       ELSE /\ failed_reads[c] < MaxFailedReads
            /\ failed_reads' = [failed_reads EXCEPT ![c] = @ + 1]
            /\ loops' = [loops EXCEPT ![c] = LoopsAfterFailedRead(@)]
            /\ UNCHANGED <<frame_queue, total_frames, dropped_frames,
                           frames_read>>
    /\ UNCHANGED <<loop_passes, loop_errors>>
    /\ UNCHANGED <<now, alertVars, alert_table, analyticsVars, detectorVars, mqttVars, threadVars,
                   engineVars, config_active, start_raised, buffer_size, cap,
                   is_running, is_active, frames_pulled>>

\* CameraStream.get_frame(): the oldest buffered frame, or None on timeout
GetFrame(c) ==
    /\ IF frame_queue[c] # <<>>
       THEN /\ frame_queue' = [frame_queue EXCEPT ![c] = Tail(@)]
            /\ frames_pulled' = [frames_pulled EXCEPT ![c] = @ + 1]
       ELSE UNCHANGED <<frame_queue, frames_pulled>>
    /\ UNCHANGED <<now, alertVars, alert_table, analyticsVars, detectorVars, mqttVars, loopVars, threadVars,
                   engineVars, config_active, start_raised, buffer_size, cap,
                   is_running, is_active, total_frames, dropped_frames, loops,
                   frames_read>>

\* The camera whose stream is exercised
StreamCameras == {"cam1"}

\* The configuration is read, and every CameraStream is constructed
InitCamera ==
    /\ now = 0
    /\ AlertAtRest
    /\ AnalyticsAtRest
    /\ DetectorAtRest
    /\ buffer_size \in 0..MaxBufferSize
    /\ config_active = [c \in Cameras |-> TRUE]
    /\ CamerasAtRest
    /\ queue_size = 1
    /\ EngineAtRest
    /\ ThreadsAtRest
    /\ MqttAtRest
    /\ LoopsAtRest

StreamStart == \E c \in StreamCameras, opened \in BOOLEAN : Start(c, opened)
StreamStop == \E c \in StreamCameras : Stop(c)
StreamCapture == \E c \in StreamCameras, ret \in BOOLEAN : StreamLoop(c, ret)
StreamPull == \E c \in StreamCameras : GetFrame(c)

NextCamera == StreamStart \/ StreamStop \/ StreamCapture \/ StreamPull

SpecCamera == InitCamera /\ [][NextCamera]_vars

\* A capture thread keeps being scheduled: it sleeps 1 / FRAME_RATE seconds
\* between two passes
SpecCameraFair ==
    /\ InitCamera
    /\ [][NextCamera]_vars
    /\ \A c \in StreamCameras : WF_vars(\E ret \in BOOLEAN : StreamLoop(c, ret))

-----------------------------------------------------------------------------
(* Claims about the camera stream, checked under SpecCamera *)

\* The pushes of camera c that were dropped: the frames read and not put
DroppedPushes(c) == frames_read[c] - total_frames[c]

\* Camera c has read more frames than its buffer holds, and nothing was pulled
Overflowed(c) ==
    /\ buffer_size >= 1
    /\ frames_pulled[c] = 0
    /\ frames_read[c] > buffer_size

\* C10: with a buffer of capacity C >= 1, N > C successful reads and no
\* consumer pulling, N - C pushes were dropped, dropped_frames is N - C and
\* the buffer holds C frames.
C10_DropsAreTheOverflow ==
    \A c \in Cameras :
        Overflowed(c) =>
            /\ DroppedPushes(c) = frames_read[c] - buffer_size
            /\ dropped_frames[c] = frames_read[c] - buffer_size
            /\ Len(frame_queue[c]) = buffer_size

\* A camera overflowed its buffer by two frames or more
C10_Witness ==
    \E c \in Cameras :
        /\ Overflowed(c)
        /\ buffer_size >= 2
        /\ dropped_frames[c] >= 2

\* This step is a capture pass of camera c that read a frame and pushed it
IsPush(c) == frames_read'[c] = frames_read[c] + 1

\* The buffer of camera c is full
BufferFull(c) == buffer_size >= 1 /\ Len(frame_queue[c]) >= buffer_size

\* C11: a capture-loop push onto a full frame buffer discards the new frame:
\* the buffer keeps its contents and their order (the oldest frame is not
\* evicted), dropped_frames goes up by one and nothing else of the stream
\* changes.
C11_FullPushDiscardsNew ==
    [][ \A c \in Cameras :
          (IsPush(c) /\ BufferFull(c)) =>
              /\ frame_queue' = frame_queue
              /\ dropped_frames' = [dropped_frames EXCEPT ![c] = @ + 1]
              /\ UNCHANGED <<total_frames, cap, is_running, is_active, loops,
                             buffer_size, frames_pulled>> ]_vars

\* A frame was pushed onto a full buffer that had been pulled from before, so
\* that the oldest frame in it is not the first frame read
C11_Witness ==
    \E c \in Cameras :
        /\ buffer_size >= 2
        /\ dropped_frames[c] >= 1
        /\ frames_pulled[c] >= 1
        /\ Len(frame_queue[c]) = buffer_size
        /\ Last(frame_queue[c]) < frames_read[c]

\* Camera "cam1" has a buffer of capacity 2, five frames were pushed and none
\* was pulled
FivePushedNoConsumer ==
    /\ buffer_size = 2
    /\ frames_read["cam1"] = 5
    /\ frames_pulled["cam1"] = 0

\* C12 as stated: for "cam1" with buffer capacity 2, after 5 pushes and no
\* pull, dropped_frames is 3 and the buffer holds the 4th and the 5th frame.
C12_LastTwoKept ==
    FivePushedNoConsumer =>
        /\ dropped_frames["cam1"] = 3
        /\ frame_queue["cam1"] = <<4, 5>>

\* C12 amended: for "cam1" with buffer capacity 2, after 5 pushes and no
\* pull, dropped_frames is 3 and the buffer holds the first 2 frames pushed
\* (the 1st and the 2nd), in arrival order.
C12_FirstTwoKept ==
    FivePushedNoConsumer =>
        /\ dropped_frames["cam1"] = 3
        /\ frame_queue["cam1"] = <<1, 2>>

\* The scenario of C12 has run to its end
C12_Witness ==
    /\ FivePushedNoConsumer
    /\ total_frames["cam1"] = 2
    /\ is_running["cam1"]

\* This step is a start() call on camera c
IsStart(c) == \E opened \in BOOLEAN : Start(c, opened)

\* C14: start() on a source whose capture loop is already running is a no-op:
\* no handle is opened, no capture thread is spawned, and is_running, the
\* buffer and the counters stay as they were.
C14_StartOnRunningIsNoOp ==
    [][ \A c \in Cameras :
          (IsStart(c) /\ is_running[c] /\ loops[c] > 0) =>
              UNCHANGED <<cap, loops, is_running, frame_queue, total_frames,
                          dropped_frames>> ]_vars

\* C15: whenever start() fails because the handle cannot be opened, the call
\* raises, it spawns no capture thread, and is_running is false afterwards.
C15_FailedStartLeavesStopped ==
    [][ \A c \in Cameras :
          Start(c, FALSE) =>
              /\ start_raised'[c]
              /\ loops'[c] = loops[c]
              /\ ~is_running'[c] ]_vars

-----------------------------------------------------------------------------
(* CameraManager *)

\* self.cameras in insertion order: the order of the descriptors in the
\* configuration
CameraOrder == <<"cam1", "cam2">>

\* The cameras CameraManager.start() gets to: it loops over
\* self.cameras.values() with each camera.start() in its own try/except, so a
\* failing start is logged and the loop goes on.  No descriptor flag is
\* looked at.  outcome[c] tells whether the handle of c opens.
ManagerIterates_UntilFailure(outcome) ==
    { CameraOrder[i] : i \in { k \in 1..Len(CameraOrder) :
                                 \A j \in 1..(k - 1) : outcome[CameraOrder[j]] } }
ManagerIterates(outcome) == { CameraOrder[i] : i \in 1..Len(CameraOrder) }

\* CameraManager.start(): camera.start() on every camera it gets to
ManagerStart(outcome) ==
    LET iterated == ManagerIterates(outcome)
        started == { c \in iterated : outcome[c] }
    IN  /\ \A c \in iterated : loops[c] < MaxLoops
        /\ cap' = [c \in Cameras |->
                     IF c \in iterated
                     THEN IF outcome[c] THEN "open" ELSE "closed"
                     ELSE cap[c]]
        /\ start_raised' = [c \in Cameras |->
                     IF c \in iterated THEN ~outcome[c] ELSE start_raised[c]]
        /\ is_running' = [c \in Cameras |-> c \in started \/ is_running[c]]
        /\ is_active' = [c \in Cameras |-> c \in started \/ is_active[c]]
        /\ loops' = [c \in Cameras |->
                     IF c \in started THEN loops[c] + 1 ELSE loops[c]]
        /\ UNCHANGED <<now, alertVars, alert_table, analyticsVars,
                       detectorVars, mqttVars, loopVars, threadVars, engineVars, config_active, buffer_size,
                       frame_queue, total_frames, dropped_frames, frames_read,
                       frames_pulled>>

\* CameraManager.stop(): camera.stop() on every camera
ManagerStop ==
    /\ is_running' = [c \in Cameras |-> FALSE]
    /\ cap' = [c \in Cameras |-> IF cap[c] = "none" THEN "none" ELSE "released"]
    /\ UNCHANGED <<now, alertVars, alert_table, analyticsVars, detectorVars, mqttVars, loopVars, threadVars,
                   engineVars, config_active, start_raised, buffer_size,
                   is_active, frame_queue, total_frames, dropped_frames, loops,
                   frames_read, frames_pulled>>

\* CameraManager.__init__: the descriptors are read, each with its active
\* flag, and a CameraStream is constructed for every one of them
InitManager ==
    /\ now = 0
    /\ AlertAtRest
    /\ AnalyticsAtRest
    /\ DetectorAtRest
    /\ buffer_size = 1
    /\ config_active \in [Cameras -> BOOLEAN]
    /\ CamerasAtRest
    /\ queue_size = 1
    /\ EngineAtRest
    /\ ThreadsAtRest
    /\ MqttAtRest
    /\ LoopsAtRest

ManagerStartAll == \E outcome \in [Cameras -> BOOLEAN] : ManagerStart(outcome)
ManagerCapture == \E c \in Cameras, ret \in BOOLEAN : StreamLoop(c, ret)

\* No consumer pulls frames here: the buffers play no part in starting and
\* stopping
NextManager == ManagerStartAll \/ ManagerStop \/ ManagerCapture

SpecManager == InitManager /\ [][NextManager]_vars

-----------------------------------------------------------------------------
(* Claims about the camera manager, checked under SpecManager *)

\* C16: in CameraManager.start() a source whose start() fails does not keep
\* any other source from being started: whichever sources fail, start() does
\* not raise (it gets to every source, and a failing one has raised inside
\* its own try), and every source whose handle opens ends with is_running
\* true.
C16_FailureIsIsolated ==
    [][ \A outcome \in [Cameras -> BOOLEAN] :
          ManagerStart(outcome) =>
              \A c \in Cameras :
                  /\ outcome[c] => (is_running'[c] /\ cap'[c] = "open"
                                      /\ loops'[c] = loops[c] + 1)
                  /\ ~outcome[c] => (start_raised'[c] /\ cap'[c] = "closed") ]_vars

\* The first camera of the configuration failed to start and the one after it
\* is running
C16_Witness ==
    /\ cap["cam1"] = "closed"
    /\ start_raised["cam1"]
    /\ ~is_running["cam1"]
    /\ cap["cam2"] = "open"
    /\ is_running["cam2"]
    /\ loops["cam2"] = 1

\* C17: CameraManager.start() calls start() only on sources whose active flag
\* is true: a source configured with active = false is not opened and not
\* started by it.
C17_InactiveNeverStarted ==
    [][ \A outcome \in [Cameras -> BOOLEAN] :
          ManagerStart(outcome) =>
              \A c \in Cameras :
                  ~config_active[c] =>
                      /\ cap'[c] = cap[c]
                      /\ loops'[c] = loops[c]
                      /\ is_running'[c] = is_running[c] ]_vars

-----------------------------------------------------------------------------
(* DetectionEngine and the processing loop of start.py *)

\* The frames handed to add_frame: one face without a mask (score 10 under
\* the loaded model), one face whose classification raises, an image on
\* which face detection raises, and a frame that is no array at all (None:
\* face detection raises, and it has no .shape)
ViolationFrame ==
    [readable |-> TRUE, faces |-> <<[score |-> 10, fault |-> FALSE]>>,
     is_array |-> TRUE]
FaultFrame ==
    [readable |-> TRUE, faces |-> <<[score |-> 0, fault |-> TRUE]>>,
     is_array |-> TRUE]
UnreadableFrame == [readable |-> FALSE, faces |-> <<>>, is_array |-> TRUE]
NotAnArray == [readable |-> FALSE, faces |-> <<>>, is_array |-> FALSE]

EngineFrames == {ViolationFrame, FaultFrame, UnreadableFrame, NotAnArray}

\* The camera id frames are stamped with (camera_manager.py line 72)
EngineCameraIds == {"cam1"}

\* What a caller of get_results(n) may pass, meaning "at most n results"
Limits == {1, 2}

\* The threads that are inside _worker_loop
AliveWorkers == {w \in Workers : worker_pc[w] # "off"}

\* The thread ids the next start() gives its MAX_WORKERS new threads
Spawned ==
    LET free == Workers \ AliveWorkers
    IN  {w \in free : Cardinality({u \in free : u < w}) < MAX_WORKERS}

\* DetectionEngine.start(): nothing on a running engine; else set the flag
\* and spawn MAX_WORKERS worker threads, whatever threads of an earlier run
\* are still alive (explored while the threads alive stay within MaxThreads)
EngineStart ==
    /\ engine_is_running \/ Cardinality(Workers \ AliveWorkers) >= MAX_WORKERS
    /\ IF engine_is_running
       THEN UNCHANGED <<engine_is_running, worker_pc>>
       ELSE /\ engine_is_running' = TRUE
            /\ worker_pc' = [w \in Workers |->
                                 IF w \in Spawned THEN "check" ELSE worker_pc[w]]
    /\ UNCHANGED <<now, alertVars, alert_table, analyticsVars, detectorVars, mqttVars, loopVars, threadVars,
                   cameraVars, queue_size, engine_frame_queue, result_queue,
                   worker_frame, total_frames_processed, loop_results,
                   frames_submitted, add_frame_last, get_results_last,
                   results_obtained>>

\* DetectionEngine.stop(): clear the flag; the join only waits
EngineStop ==
    /\ engine_is_running' = FALSE
    /\ UNCHANGED <<now, alertVars, alert_table, analyticsVars, detectorVars, mqttVars, loopVars, threadVars,
                   cameraVars, queue_size, engine_frame_queue, result_queue,
                   worker_pc, worker_frame, total_frames_processed,
                   loop_results, frames_submitted, add_frame_last,
                   get_results_last, results_obtained>>

\* What add_frame returns: the method has no return statement
AddFrameReturn(appended) == "None"

\* DetectionEngine.add_frame(frame_data): put_nowait, queue.Full is logged
AddFrame(frame_data) ==
    /\ engine_frame_queue' = PutNowait(engine_frame_queue, queue_size, frame_data)
    /\ frames_submitted' = frames_submitted + 1
    /\ add_frame_last' =
           [called |-> TRUE,
            appended |-> ~QueueFull(engine_frame_queue, queue_size),
            ret |-> AddFrameReturn(~QueueFull(engine_frame_queue, queue_size))]
    /\ frames_accepted' = frames_accepted +
           (IF QueueFull(engine_frame_queue, queue_size) THEN 0 ELSE 1)
    /\ UNCHANGED <<calls, stat_read, frames_taken, iterations_finished>>
    /\ UNCHANGED <<now, alertVars, alert_table, analyticsVars, detectorVars, mqttVars, loopVars,
                   cameraVars, queue_size, engine_is_running, result_queue,
                   worker_pc, worker_frame, total_frames_processed,
                   loop_results, get_results_last, results_obtained>>

\* The list get_results(timeout) returns from a result queue q: get_nowait
\* until queue.Empty.  The one parameter is the timeout, and it is not used.
GetResultsReturns(q, timeout) == q

\* DetectionEngine.get_results(), called by the processing loop once it has
\* handled the results of its last pass
GetResults(limit) ==
    LET results == GetResultsReturns(result_queue, limit)
    IN  /\ loop_results = <<>>
        /\ result_queue' = SubSeq(result_queue, Len(results) + 1,
                                  Len(result_queue))
        /\ get_results_last' =
               [called |-> TRUE, limit |-> limit, returned |-> results,
                left |-> result_queue']
        /\ loop_results' = results
        /\ results_obtained' = results_obtained + Len(results)
        /\ UNCHANGED <<now, alertVars, alert_table, analyticsVars,
                       detectorVars, mqttVars, loopVars, threadVars, cameraVars, queue_size, engine_is_running,
                       engine_frame_queue, worker_pc, worker_frame,
                       total_frames_processed, frames_submitted,
                       add_frame_last>>

\* The dict a worker hands on: process_frame's results updated with the
\* frame's camera_id and timestamp
DetectionResults(model_loaded, frame_data) ==
    LET results == ProcessFrame(model_loaded, frame_data.frame)
    IN  [camera_id |-> frame_data.camera_id,
         timestamp |-> frame_data.timestamp,
         faces_detected |-> results.faces_detected,
         masks_detected |-> results.masks_detected,
         no_masks_detected |-> results.no_masks_detected,
         detections |-> results.detections,
         confidence_score |-> results.confidence_score]

\* _save_detection: one row, unless the session raises (caught and logged)
SaveDetection(table, results, db_ok) ==
    IF db_ok
    THEN Append(table, [camera_id |-> results.camera_id,
                        timestamp |-> results.timestamp,
                        face_count |-> results.faces_detected,
                        mask_count |-> results.masks_detected,
                        no_mask_count |-> results.no_masks_detected])
    ELSE table

\* A loop that never looks at the flag
LoopCondition_Always(running) == TRUE

\* _worker_loop, the loop condition "while self.is_running"
LoopCondition(running) == running

\* _worker_loop, the loop condition: leave when is_running is off
WorkerCheck(w) ==
    /\ worker_pc[w] = "check"
    /\ worker_pc' = [worker_pc EXCEPT
                        ![w] = IF LoopCondition(engine_is_running)
                               THEN "get" ELSE "off"]
    /\ UNCHANGED <<now, alertVars, alert_table, analyticsVars, detectorVars, mqttVars, loopVars, threadVars,
                   cameraVars, queue_size, engine_is_running,
                   engine_frame_queue, result_queue, worker_frame,
                   total_frames_processed, loop_results, frames_submitted,
                   add_frame_last, get_results_last, results_obtained>>

\* A get that leaves the item on the queue
QueueGet_Peek(q) == q

\* What queue.get() leaves on a queue q that is not empty: the item it
\* returns, the oldest, is removed under the queue's lock
QueueGet(q) == Tail(q)

\* _worker_loop, frame_queue.get(timeout=1.0): the oldest frame, or
\* queue.Empty after the timeout and back to the loop condition
WorkerGet(w) ==
    /\ worker_pc[w] = "get"
    /\ IF engine_frame_queue # <<>>
       THEN /\ worker_frame' = [worker_frame EXCEPT ![w] = Head(engine_frame_queue)]
            /\ engine_frame_queue' = QueueGet(engine_frame_queue)
            /\ worker_pc' = [worker_pc EXCEPT ![w] = "work"]
            /\ frames_taken' = frames_taken + 1
       ELSE /\ worker_pc' = [worker_pc EXCEPT ![w] = "check"]
            /\ UNCHANGED <<worker_frame, engine_frame_queue, frames_taken>>
    /\ UNCHANGED <<calls, stat_read, frames_accepted, iterations_finished>>
    /\ UNCHANGED <<now, alertVars, alert_table, analyticsVars, detectorVars, mqttVars, loopVars,
                   cameraVars, queue_size, engine_is_running, result_queue,
                   total_frames_processed, loop_results, frames_submitted,
                   add_frame_last, get_results_last, results_obtained>>

\* _worker_loop, the iteration up to the statistics: process_frame (which
\* catches its own errors and returns the results it has), the metadata,
\* _save_detection and put_nowait on the result queue.  frame.shape raises on
\* a frame that is no array, and nothing is emitted for it.
WorkerEmit(w, db_ok) ==
    LET frame_data == worker_frame[w]
        detection_results == DetectionResults(detector_model, frame_data)
    IN  /\ worker_pc[w] = "work"
        /\ worker_frame' = [worker_frame EXCEPT ![w] = NoFrame]
        /\ IF frame_data.frame.is_array
           THEN /\ detection_table' =
                       SaveDetection(detection_table, detection_results, db_ok)
                /\ result_queue' =
                       PutNowait(result_queue, queue_size, detection_results)
           ELSE UNCHANGED <<detection_table, result_queue>>
        /\ UNCHANGED <<now, alertVars, alert_table, cache, analytics_last,
                       detectorVars, mqttVars, loopVars, cameraVars, queue_size, engine_is_running,
                       engine_frame_queue, loop_results, frames_submitted,
                       add_frame_last, get_results_last, results_obtained,
                       calls, frames_accepted, frames_taken>>

\* A loop that an exception leaves
LoopAfter_Propagates(raised) == IF raised THEN "off" ELSE "check"

\* _worker_loop, where the thread goes when the iteration is over: "except
\* Exception" logs what was raised and the while loop goes on
LoopAfter(raised) == "check"

\* _worker_loop, the rest of the iteration once a frame is taken, with
\* _update_statistics as one step
WorkerProcess(w, db_ok) ==
    /\ WorkerEmit(w, db_ok)
    /\ worker_pc' = [worker_pc EXCEPT
                        ![w] = LoopAfter(~worker_frame[w].frame.is_array)]
    /\ IF worker_frame[w].frame.is_array
       THEN /\ total_frames_processed' = total_frames_processed + 1
            /\ iterations_finished' = iterations_finished + 1
       ELSE UNCHANGED <<total_frames_processed, iterations_finished>>
    /\ UNCHANGED stat_read

\* _process_detection_result(result), for the next result of the pass: a
\* result with no_masks_detected > 0 from a camera the manager knows goes to
\* send_violation_alert when the bot is enabled
ProcessDetectionResult(response, db_ok) ==
    LET result == Head(loop_results)
    IN  /\ loop_results # <<>>
        /\ loop_results' = Tail(loop_results)
        /\ IF /\ result.no_masks_detected > 0
              /\ result.camera_id \in Cameras
              /\ enabled
           THEN SendAlertBody(result.camera_id, "violation", "high", response,
                              db_ok)
           ELSE UNCHANGED <<alertVars, alert_table>>
        /\ UNCHANGED <<now, analyticsVars, detectorVars, mqttVars, loopVars, threadVars, cameraVars,
                       queue_size, engine_is_running, engine_frame_queue,
                       result_queue, worker_pc, worker_frame,
                       total_frames_processed, frames_submitted,
                       add_frame_last, get_results_last, results_obtained>>

\* DetectionEngine.get_statistics(): the dict it returns, without the rate
\* processing_fps and the thread count active_workers
GetStatistics ==
    [is_running |-> engine_is_running,
     total_frames_processed |-> total_frames_processed,
     queue_size |-> Len(engine_frame_queue),
     result_queue_size |-> Len(result_queue)]

\* DetectionEngine.__init__ with its detector, and Config.QUEUE_SIZE
InitEngine ==
    /\ now = 0
    /\ AlertAtRest
    /\ AnalyticsAtRest
    /\ detector_model \in BOOLEAN
    /\ detector_frame = EmptyDict
    /\ detector_result = EmptyDict
    /\ buffer_size = 1
    /\ config_active = [c \in Cameras |-> TRUE]
    /\ CamerasAtRest
    /\ queue_size \in 1..MaxQueueSize
    /\ EngineAtRest
    /\ ThreadsAtRest
    /\ MqttAtRest
    /\ LoopsAtRest

EngineSubmit ==
    /\ frames_submitted < MaxSubmitted
    /\ \E camera_id \in EngineCameraIds, frame \in EngineFrames :
           AddFrame([camera_id |-> camera_id, timestamp |-> now,
                     frame |-> frame])
WorkerChecks == \E w \in Workers : WorkerCheck(w)
WorkerGets == \E w \in Workers : WorkerGet(w)
WorkerProcesses == \E w \in Workers, db_ok \in BOOLEAN : WorkerProcess(w, db_ok)
EngineDrain == \E limit \in Limits : GetResults(limit)
EngineHandle == ProcessDetectionResult("ok", TRUE)

NextEngine ==
    \/ EngineStart \/ EngineStop \/ EngineSubmit
    \/ WorkerChecks \/ WorkerGets \/ WorkerProcesses
    \/ EngineDrain \/ EngineHandle

SpecEngine == InitEngine /\ [][NextEngine]_vars

-----------------------------------------------------------------------------
(* Claims about the detection engine, checked under SpecEngine *)

\* C18: add_frame does not block and returns a boolean success flag: True
\* exactly when the frame was appended to the input queue, False exactly when
\* the queue was full and the frame was dropped.
C18_AddFrameReturnsFlag ==
    add_frame_last.called =>
        add_frame_last.ret = IF add_frame_last.appended THEN "True" ELSE "False"

\* This step is a get_results call
IsGetResults == \E limit \in Limits : GetResults(limit)

\* The shorter of a limit and the length of a queue
AtMost(limit, q) == IF Len(q) < limit THEN Len(q) ELSE limit

\* C19: the drain does not block, returns the results that are ready in queue
\* (FIFO) order, an empty list when none is ready, and at most the requested
\* limit of them, the excess staying in the output queue.
C19_DrainHonoursLimit ==
    [][ IsGetResults =>
          LET n == AtMost(get_results_last'.limit, result_queue)
          IN  /\ get_results_last'.returned = SubSeq(result_queue, 1, n)
              /\ result_queue' = SubSeq(result_queue, n + 1, Len(result_queue))
      ]_vars

\* Classifying the frame fails with an error: face detection raises, or the
\* prediction for one of its faces does
ClassificationFails(frame) ==
    \/ ~frame.readable
    \/ \E i \in 1..Len(frame.faces) : frame.faces[i].fault

\* This step is worker w finishing the iteration for the frame it took
IsWorkerProcess(w) == worker_pc[w] = "work" /\ worker_pc'[w] # "work"

\* C20: when classification of a frame fails with an error the worker emits
\* no result for it: nothing is pushed to the output queue, nothing is
\* persisted, and the worker goes on to the next frame.
C20_FailedFrameEmitsNothing ==
    [][ \A w \in Workers :
          (IsWorkerProcess(w) /\ ClassificationFails(worker_frame[w].frame)) =>
              /\ result_queue' = result_queue
              /\ detection_table' = detection_table
              /\ worker_pc'[w] = "check" ]_vars

-----------------------------------------------------------------------------
(* The pipeline scenario: frames of one source, every one of them showing a
   face without a mask, go through the engine and the processing loop to a
   notifier that succeeds *)

\* DetectionEngine.__init__ with the mask model loaded, and the bot enabled
InitPipeline ==
    /\ now = 0
    /\ AlertAtRest
    /\ AnalyticsAtRest
    /\ DetectorAtRest
    /\ buffer_size = 1
    /\ config_active = [c \in Cameras |-> TRUE]
    /\ CamerasAtRest
    /\ queue_size = PipelineQueueSize
    /\ EngineAtRest
    /\ ThreadsAtRest
    /\ MqttAtRest
    /\ LoopsAtRest

\* The frames were captured at time 0
PipelineSubmit ==
    /\ frames_submitted < PipelineFrames
    /\ AddFrame([camera_id |-> "cam1", timestamp |-> 0,
                 frame |-> ViolationFrame])
PipelineProcesses == \E w \in Workers : WorkerProcess(w, TRUE)
PipelineDrain == GetResults(1)
PipelineHandle == ProcessDetectionResult("ok", TRUE)

\* The wall clock moves on while the frames are processed
TickPipeline ==
    /\ \E t \in PipelineClock : t > now /\ now' = t
    /\ UNCHANGED <<alertVars, alert_table, analyticsVars, detectorVars, mqttVars, loopVars, threadVars,
                   cameraVars, engineVars>>

NextPipeline ==
    \/ EngineStart \/ PipelineSubmit
    \/ WorkerChecks \/ WorkerGets \/ PipelineProcesses
    \/ PipelineDrain \/ PipelineHandle \/ TickPipeline

SpecPipeline == InitPipeline /\ [][NextPipeline]_vars

-----------------------------------------------------------------------------
(* Claims about the pipeline scenario, checked under SpecPipeline *)

\* All frames of the scenario were submitted, and everything they led to has
\* been processed, drained and handled
PipelineDone ==
    /\ frames_submitted = PipelineFrames
    /\ engine_frame_queue = <<>>
    /\ \A w \in Workers : worker_pc[w] # "work"
    /\ result_queue = <<>>
    /\ loop_results = <<>>

\* C13: with 2 workers, an input queue of capacity 10, a classifier that finds
\* one face without a mask in every frame and a notifier that succeeds, after
\* the 10 frames of a source were submitted and the results drained, 10
\* results were obtained, send_alert was called 10 times, and 1 notification
\* was sent when the cooldown window is longer than the processing took.
C13_TenResultsOneNotification ==
    PipelineDone =>
        /\ results_obtained = PipelineFrames
        /\ Len(alert_log) = PipelineFrames
        /\ now < ALERT_COOLDOWN => (messages_sent = 1 /\ HandedCount = 1)

\* The scenario has run to its end inside one cooldown window, with both
\* workers spawned and some time gone by
C13_Witness ==
    /\ PipelineDone
    /\ MAX_WORKERS = 2
    /\ queue_size = 10
    /\ results_obtained = 10
    /\ Len(detection_table) = 10
    /\ now > 0
    /\ now < ALERT_COOLDOWN
    /\ messages_sent = 1

-----------------------------------------------------------------------------
(* The worker threads of the engine under a fair scheduler *)

\* DetectionEngine.__init__ with a loaded detector and queues of one slot
InitWorkers ==
    /\ now = 0
    /\ AlertAtRest
    /\ AnalyticsAtRest
    /\ DetectorAtRest
    /\ buffer_size = 1
    /\ config_active = [c \in Cameras |-> TRUE]
    /\ CamerasAtRest
    /\ queue_size = 1
    /\ EngineAtRest
    /\ ThreadsAtRest
    /\ MqttAtRest
    /\ LoopsAtRest

\* One step of worker thread w, wherever it is in _worker_loop
WorkerStep(w) ==
    \/ WorkerCheck(w)
    \/ WorkerGet(w)
    \/ \E db_ok \in BOOLEAN : WorkerProcess(w, db_ok)

WorkerSteps == \E w \in Workers : WorkerStep(w)

\* The frames handed to add_frame here: one whose classification raises
\* inside process_frame, and one that makes the worker's iteration raise
WorkerFrames == {FaultFrame, NotAnArray}

WorkersSubmit ==
    /\ frames_submitted < MaxSubmitted
    /\ \E camera_id \in EngineCameraIds, frame \in WorkerFrames :
           AddFrame([camera_id |-> camera_id, timestamp |-> now,
                     frame |-> frame])

NextWorkers == EngineStart \/ EngineStop \/ WorkersSubmit \/ WorkerSteps

\* A thread inside _worker_loop keeps being scheduled, and
\* frame_queue.get(timeout=1.0) returns after a second at the latest
SpecWorkers ==
    /\ InitWorkers
    /\ [][NextWorkers]_vars
    /\ \A w \in Workers : WF_vars(WorkerStep(w))

-----------------------------------------------------------------------------
(* Claims about the worker threads, checked under SpecWorkers *)

\* C22: once the engine is stopped and not started again, every worker loop
\* terminates, the loops of workers on which stop()'s join timed out
\* included.
C22_StoppedWorkersTerminate ==
    ~engine_is_running ~> (engine_is_running \/ AliveWorkers = {})

\* The engine was stopped while a worker is in the middle of an iteration
C22_Witness ==
    /\ ~engine_is_running
    /\ frames_taken >= 1
    /\ \E w \in Workers : worker_pc[w] = "work"

\* The results the workers produced that are neither waiting on the result
\* queue nor handed out by get_results: the results dropped on queue.Full
DroppedResults == iterations_finished - results_obtained - Len(result_queue)

\* C21: a worker whose push finds the result queue full drops the result
\* without blocking and leaves the queue as it is, and a dropped-result
\* counter goes up by one: some number in the statistics is the number of
\* results dropped, before the drop and after it.
C21_DropIsCounted ==
    [][ \A w \in Workers, db_ok \in BOOLEAN :
          ( /\ WorkerProcess(w, db_ok)
            /\ worker_frame[w].frame.is_array
            /\ QueueFull(result_queue, queue_size) ) =>
              /\ result_queue' = result_queue
              /\ worker_pc'[w] = "check"
              /\ DroppedResults' = DroppedResults + 1
              /\ \E f \in DOMAIN GetStatistics \ {"is_running"} :
                     /\ GetStatistics[f] = DroppedResults
                     /\ GetStatistics'[f] = DroppedResults' ]_vars

\* Nothing is on its way: no worker holds a frame, and the queues and the
\* processing loop's list of results are empty
PipelineQuiet ==
    /\ \A w \in Workers : worker_pc[w] # "work"
    /\ engine_frame_queue = <<>>
    /\ result_queue = <<>>
    /\ loop_results = <<>>

\* C23: every result a worker produces goes to persistence and to the alert
\* dispatch, whether its push onto the result queue succeeded or not: the
\* worker passes it to _save_detection, and once nothing is on its way the
\* processing loop has obtained, and handled, as many results as the workers
\* produced.
C23_EveryResultForwarded ==
    /\ [][ \A w \in Workers, db_ok \in BOOLEAN :
             (WorkerProcess(w, db_ok) /\ worker_frame[w].frame.is_array) =>
                 detection_table' =
                     SaveDetection(detection_table,
                                   DetectionResults(detector_model,
                                                    worker_frame[w]),
                                   db_ok) ]_vars
    /\ [](PipelineQuiet => results_obtained = iterations_finished)

-----------------------------------------------------------------------------
(* TelegramBot.send_alert called from several threads: the cooldown test and
   the rest of the call as separate steps, all within one second of the clock *)

\* The caller threads that are inside send_alert
InSendAlert == {t \in Callers : calls[t] # NotCalling}

\* send_alert up to the cooldown test (lines 95-103): inside the window the
\* call returns False, else it goes on to format and send
SendAlertCheck(t, camera_id, alert_type, severity) ==
    /\ calls[t] = NotCalling
    /\ Len(alert_log) + Cardinality(InSendAlert) < MaxCalls
    /\ IF CooldownActive(last_alert_time, AlertKey(camera_id, alert_type), now)
       THEN /\ SendAlertSuppressed(camera_id, alert_type)
            /\ UNCHANGED calls
       ELSE /\ calls' = [calls EXCEPT
                            ![t] = [pc |-> "send", camera_id |-> camera_id,
                                    alert_type |-> alert_type,
                                    severity |-> severity,
                                    current_time |-> now]]
            /\ UNCHANGED <<alertVars, alert_table>>
    /\ UNCHANGED <<now, analyticsVars, detectorVars, mqttVars, loopVars, cameraVars, engineVars,
                   stat_read, frames_accepted, frames_taken,
                   iterations_finished>>

\* send_alert from the formatting on (lines 105-117): send_message, and on
\* success the cooldown entry and the saved row
SendAlertFinish(t, response, db_ok) ==
    /\ calls[t] # NotCalling
    /\ calls[t].pc = "send"
    /\ SendAlertDispatch(calls[t].camera_id, calls[t].alert_type,
                         calls[t].severity, response, db_ok)
    /\ calls' = [calls EXCEPT ![t] = NotCalling]
    /\ UNCHANGED <<now, analyticsVars, detectorVars, mqttVars, loopVars, cameraVars, engineVars,
                   stat_read, frames_accepted, frames_taken,
                   iterations_finished>>

AlertChecks ==
    \E t \in Callers, camera_id \in CameraIds, alert_type \in AlertTypes,
       severity \in Severities :
        SendAlertCheck(t, camera_id, alert_type, severity)
AlertFinishes ==
    \E t \in Callers, response \in Responses, db_ok \in BOOLEAN :
        SendAlertFinish(t, response, db_ok)

NextAlertRace == AlertChecks \/ AlertFinishes

SpecAlertRace == InitAlert /\ [][NextAlertRace]_vars

\* C24: when send_alert is called concurrently for one (source, kind), the
\* cooldown test and the cooldown update act as one step: with a notifier
\* that accepts whatever it is handed, no two notifications for one key are
\* handed over less than a cooldown window apart.
C24_OneNotificationPerWindow ==
    (\A i \in AlertCalls : alert_log[i].handed => alert_log[i].ret) =>
        \A i, j \in AlertCalls :
            ( /\ i < j
              /\ alert_log[i].handed
              /\ alert_log[j].handed
              /\ LoggedKey(alert_log[i]) = LoggedKey(alert_log[j]) )
            => alert_log[j].at - alert_log[i].at >= ALERT_COOLDOWN

-----------------------------------------------------------------------------
(* AnalyticsEngine.get_analytics called while clear_cache runs in another
   thread: the statements of the cache check as separate steps, all within
   one second of the clock *)

\* get_analytics, "if cache_key in self.cache" (line 66)
GetAnalyticsTest(t, period) ==
    /\ calls[t] = NotCalling
    /\ calls' = [calls EXCEPT
                    ![t] = [pc |-> IF CacheKey(period) \in DOMAIN cache
                                   THEN "read" ELSE "compute",
                            period |-> period]]
    /\ UNCHANGED <<now, alertVars, alert_table, analyticsVars, detectorVars, mqttVars, loopVars,
                   cameraVars, engineVars, stat_read, frames_accepted,
                   frames_taken, iterations_finished>>

\* get_analytics, "cached_data, timestamp = self.cache[cache_key]" and the
\* freshness test (lines 67-69), outside the try block: a key that is gone
\* raises KeyError to the caller
GetAnalyticsRead(t) ==
    LET period == calls[t].period
        cache_key == CacheKey(period)
    IN  /\ calls[t] # NotCalling
        /\ calls[t].pc = "read"
        /\ IF cache_key \notin DOMAIN cache
           THEN /\ analytics_last' =
                       [op |-> "get_analytics", period |-> period, at |-> now,
                        data |-> EmptyDict, from_cache |-> FALSE, age |-> 0,
                        fail |-> "KeyError", after |-> analytics_last.op]
                /\ calls' = [calls EXCEPT ![t] = NotCalling]
           ELSE IF CacheFresh(now, cache[cache_key].timestamp)
           THEN /\ analytics_last' =
                       [op |-> "get_analytics", period |-> period, at |-> now,
                        data |-> cache[cache_key].data, from_cache |-> TRUE,
                        age |-> now - cache[cache_key].timestamp,
                        fail |-> "none", after |-> analytics_last.op]
                /\ calls' = [calls EXCEPT ![t] = NotCalling]
           ELSE /\ calls' = [calls EXCEPT ![t].pc = "compute"]
                /\ UNCHANGED analytics_last
        /\ UNCHANGED <<now, alertVars, alert_table, cache, detection_table,
                       detectorVars, mqttVars, loopVars, cameraVars, engineVars, stat_read,
                       frames_accepted, frames_taken, iterations_finished>>

\* get_analytics, the try block (lines 71-147): the snapshot is computed and
\* cached, or {} is returned when something raised
GetAnalyticsCompute(t, fail) ==
    LET period == calls[t].period
        analytics_data ==
            ComputeAnalytics(period, now, detection_table, alert_table, fail)
    IN  /\ calls[t] # NotCalling
        /\ calls[t].pc = "compute"
        /\ analytics_last' =
               [op |-> "get_analytics", period |-> period, at |-> now,
                data |-> analytics_data, from_cache |-> FALSE, age |-> 0,
                fail |-> fail, after |-> analytics_last.op]
        /\ cache' = IF analytics_data = EmptyDict THEN cache
                    ELSE Put(cache, CacheKey(period),
                             [data |-> analytics_data, timestamp |-> now])
        /\ calls' = [calls EXCEPT ![t] = NotCalling]
        /\ UNCHANGED <<now, alertVars, alert_table, detection_table,
                       detectorVars, mqttVars, loopVars, cameraVars, engineVars, stat_read,
                       frames_accepted, frames_taken, iterations_finished>>

AnalyticsTests == \E t \in Callers, period \in Periods : GetAnalyticsTest(t, period)
AnalyticsReads == \E t \in Callers : GetAnalyticsRead(t)
AnalyticsComputes ==
    \E t \in Callers, fail \in FailModes : GetAnalyticsCompute(t, fail)

NextAnalyticsRace ==
    AnalyticsTests \/ AnalyticsReads \/ AnalyticsComputes \/ ClearCache

SpecAnalyticsRace == InitAnalytics /\ [][NextAnalyticsRace]_vars

\* C25: however get_analytics and clear_cache interleave, get_analytics
\* raises no error, and what it returns is an unexpired cached snapshot or a
\* snapshot it has just computed.
C25_NoErrorUnderClear ==
    analytics_last.op = "get_analytics" =>
        /\ analytics_last.fail # "KeyError"
        /\ analytics_last.from_cache =>
               /\ analytics_last.age < cache_ttl
               /\ analytics_last.data # EmptyDict
        /\ ~analytics_last.from_cache =>
               analytics_last.data =
                   ComputeAnalytics(analytics_last.period, analytics_last.at,
                                    detection_table, alert_table,
                                    analytics_last.fail)

\* C26: no failure while handling a frame ends a worker of a running engine.
\* Whatever the frame was and whether the row was saved or the result queue
\* was full, the iteration ends back at the loop condition, and a worker
\* leaves its loop only when is_running is off.
C26_FailureKeepsWorker ==
    [][ \A w \in Workers :
          /\ IsWorkerProcess(w) => worker_pc'[w] = "check"
          /\ (worker_pc[w] # "off" /\ worker_pc'[w] = "off") =>
                 ~engine_is_running ]_vars

\* A frame that was no array has been handled, nothing came of it, and with
\* every worker of the running engine still alive one of them is processing
\* the frame submitted after it, a frame whose classification raises
C26_Witness ==
    /\ engine_is_running
    /\ frames_taken = 2
    /\ iterations_finished = 0
    /\ Cardinality(AliveWorkers) = MAX_WORKERS
    /\ Cardinality({w \in Workers : worker_pc[w] = "work"}) = 1
    /\ \E w \in Workers :
           worker_pc[w] = "work" /\ worker_frame[w].frame = FaultFrame

\* Every accepted frame is waiting on the frame queue or was taken, once
C27_TakenOnce == frames_taken + Len(engine_frame_queue) = frames_accepted

\* A step that hands a frame to a worker takes the oldest frame off the
\* queue and hands it to no other worker
C27_TakeIsExclusive ==
    \A w \in Workers :
        (worker_frame'[w] # worker_frame[w] /\ worker_frame'[w] # NoFrame) =>
            /\ engine_frame_queue # <<>>
            /\ worker_frame'[w] = Head(engine_frame_queue)
            /\ engine_frame_queue' = Tail(engine_frame_queue)
            /\ frames_taken' = frames_taken + 1
            /\ \A u \in Workers \ {w} : worker_frame'[u] = worker_frame[u]

\* C27: a frame accepted into the frame queue is taken by at most one worker,
\* whatever the interleaving of the workers, and while the engine keeps
\* running a waiting frame is eventually taken.
C27_EachFrameTakenOnce ==
    /\ [](C27_TakenOnce)
    /\ [][C27_TakeIsExclusive]_vars
    /\ \A k \in 0..MaxSubmitted :
           (frames_taken = k /\ engine_frame_queue # <<>> /\ engine_is_running)
               ~> (frames_taken > k \/ ~engine_is_running)

\* Two workers are processing at the same time, each the frame it took: the
\* two frames that were accepted
C27_Witness ==
    /\ frames_accepted = 2
    /\ frames_taken = 2
    /\ \E w, u \in Workers :
           /\ w # u
           /\ worker_pc[w] = "work"
           /\ worker_pc[u] = "work"
           /\ worker_frame[w] # worker_frame[u]

-----------------------------------------------------------------------------
(* The workers with _update_statistics as the read and the write it is made
   of: "self.total_frames_processed += 1" holds no lock *)

\* _worker_loop, the iteration from the taken frame to the call of
\* _update_statistics (which an iteration that raised never reaches)
WorkerReachStatistics(w, db_ok) ==
    /\ WorkerEmit(w, db_ok)
    /\ worker_pc' = [worker_pc EXCEPT
                        ![w] = IF worker_frame[w].frame.is_array
                               THEN "stat_read" ELSE LoopAfter(TRUE)]
    /\ UNCHANGED <<total_frames_processed, stat_read, iterations_finished>>

\* _update_statistics, "+= 1": load self.total_frames_processed
StatisticsRead(w) ==
    /\ worker_pc[w] = "stat_read"
    /\ stat_read' = [stat_read EXCEPT ![w] = total_frames_processed]
    /\ worker_pc' = [worker_pc EXCEPT ![w] = "stat_write"]
    /\ UNCHANGED <<now, alertVars, alert_table, analyticsVars, detectorVars, mqttVars, loopVars,
                   cameraVars, queue_size, engine_is_running,
                   engine_frame_queue, result_queue, worker_frame,
                   total_frames_processed, loop_results, frames_submitted,
                   add_frame_last, get_results_last, results_obtained,
                   calls, frames_accepted, frames_taken, iterations_finished>>

\* _update_statistics, "+= 1": store the value loaded plus one; the
\* iteration is over
StatisticsWrite(w) ==
    /\ worker_pc[w] = "stat_write"
    /\ total_frames_processed' = stat_read[w] + 1
    /\ stat_read' = [stat_read EXCEPT ![w] = 0]
    /\ iterations_finished' = iterations_finished + 1
    /\ worker_pc' = [worker_pc EXCEPT ![w] = LoopAfter(FALSE)]
    /\ UNCHANGED <<now, alertVars, alert_table, analyticsVars, detectorVars, mqttVars, loopVars,
                   cameraVars, queue_size, engine_is_running,
                   engine_frame_queue, result_queue, worker_frame,
                   loop_results, frames_submitted, add_frame_last,
                   get_results_last, results_obtained, calls, frames_accepted,
                   frames_taken>>

WorkerPolls == \E w \in Workers : WorkerCheck(w) \/ WorkerGet(w)
WorkerReaches ==
    \E w \in Workers, db_ok \in BOOLEAN : WorkerReachStatistics(w, db_ok)
StatisticsReads == \E w \in Workers : StatisticsRead(w)
StatisticsWrites == \E w \in Workers : StatisticsWrite(w)

NextStatistics ==
    \/ EngineStart \/ EngineStop \/ WorkersSubmit \/ WorkerPolls
    \/ WorkerReaches \/ StatisticsReads \/ StatisticsWrites

SpecStatistics == InitWorkers /\ [][NextStatistics]_vars

\* No worker is inside an iteration
WorkersIdle == \A w \in Workers : worker_pc[w] \in {"off", "check", "get"}

\* C28: whatever the interleaving of the workers, once they are all idle
\* total_frames_processed is the number of iterations that finished
\* processing a frame: no increment is lost.
C28_NoLostIncrement ==
    WorkersIdle => total_frames_processed = iterations_finished

\* C29: under every sequence of start() and stop() calls, stop() calls whose
\* join gave up and start() calls on a running engine included, no more than
\* max_workers worker loops are executing.
C29_AtMostMaxWorkers == Cardinality(AliveWorkers) <= MAX_WORKERS

\* C30: in every reachable state each camera's frame buffer holds at most
\* BUFFER_SIZE frames and the engine's frame queue and result queue hold at
\* most QUEUE_SIZE items each, whatever the speeds of producers and consumers.
C30_QueuesWithinCapacity ==
    /\ \A c \in Cameras : Len(frame_queue[c]) <= buffer_size
    /\ Len(engine_frame_queue) <= queue_size
    /\ Len(result_queue) <= queue_size

-----------------------------------------------------------------------------
(* Claims about the capture loop and the stream controls *)

\* This step is a failed read of camera c's capture loop
IsFailedRead(c) == failed_reads'[c] = failed_reads[c] + 1

\* This step is a successful read of camera c's capture loop
IsRead(c) == frames_read'[c] = frames_read[c] + 1

\* C31: a failed frame read does not end the capture loop.  While is_running
\* is true a failed read pushes nothing and changes no counter and the loop
\* goes on, and a successful read, whatever failed before it, is put on the
\* buffer and counted as usual.
C31_FailedReadKeepsLoop ==
    [][ \A c \in Cameras :
          /\ IsFailedRead(c) =>
                 /\ is_running[c]
                 /\ loops'[c] = loops[c]
                 /\ frame_queue'[c] = frame_queue[c]
                 /\ total_frames'[c] = total_frames[c]
                 /\ dropped_frames'[c] = dropped_frames[c]
          /\ IsRead(c) =>
                 /\ frame_queue'[c] =
                        PutNowait(frame_queue[c], buffer_size, frames_read'[c])
                 /\ total_frames'[c] + dropped_frames'[c] =
                        total_frames[c] + dropped_frames[c] + 1 ]_vars

\* The one capture loop of cam1 is alive after all the failed reads explored,
\* and a frame it read is on the buffer
C31_Witness ==
    /\ failed_reads["cam1"] = MaxFailedReads
    /\ is_running["cam1"]
    /\ loops["cam1"] = 1
    /\ frames_read["cam1"] = 1
    /\ total_frames["cam1"] = 1
    /\ frame_queue["cam1"] = <<1>>

\* C32: for each source at most one capture loop thread is executing at any
\* time, under every sequence of start and stop calls (start_camera,
\* stop_camera and restart_camera call the stream's start() and stop()).
C32_OneLoopPerSource == \A c \in Cameras : loops[c] <= 1

\* C33: CameraStream.stop() leaves is_running false and the capture handle
\* released, also on a source that is not running, and with no later start()
\* the capture loops of the source eventually exit.
C33_StopEndsLoop ==
    /\ [][ \A c \in Cameras :
             Stop(c) =>
                 /\ ~is_running'[c]
                 /\ cap'[c] # "open"
                 /\ cap[c] # "none" => cap'[c] = "released" ]_vars
    /\ \A c \in StreamCameras :
           ~is_running[c] ~> (is_running[c] \/ loops[c] = 0)

\* cam1 was stopped while its capture loop was alive: the flag is off, the
\* handle is released, and the loop, having read a frame, has not left yet
C33_Witness ==
    /\ ~is_running["cam1"]
    /\ cap["cam1"] = "released"
    /\ loops["cam1"] = 1
    /\ frames_read["cam1"] >= 1

-----------------------------------------------------------------------------
(* More claims about the alert dispatcher, checked under SpecAlert *)

\* The cooldown entry of a key is the same before and after this step
EntryUnchanged(k) ==
    /\ (k \in DOMAIN last_alert_time') = (k \in DOMAIN last_alert_time)
    /\ k \in DOMAIN last_alert_time => last_alert_time'[k] = last_alert_time[k]

\* Every suppressed call comes less than a cooldown window after a dispatch
\* for its own (camera_id, alert_type) pair
C34_SuppressedByOwnPair ==
    \A j \in AlertCalls :
        ~alert_log[j].handed =>
            \E i \in 1..(j - 1) :
                /\ alert_log[i].ret
                /\ alert_log[i].camera_id = alert_log[j].camera_id
                /\ alert_log[i].alert_type = alert_log[j].alert_type
                /\ alert_log[j].at - alert_log[i].at < ALERT_COOLDOWN

\* A call for one pair leaves the cooldown entry of every other pair alone
C34_OtherEntriesKept ==
    IsAlertCallStep =>
        \A camera_id \in CameraIds, alert_type \in AlertTypes :
            <<camera_id, alert_type>>
                # <<Last(alert_log').camera_id, Last(alert_log').alert_type>>
            => EntryUnchanged(AlertKey(camera_id, alert_type))

AlertRow(r, severity) ==
    [camera_id |-> r.camera_id, alert_type |-> r.alert_type,
     severity |-> severity, timestamp |-> r.at]

\* C35: an alert record is written exactly for dispatched alerts.  A call
\* whose hand-off succeeded writes its one row when the session works, and at
\* most that row otherwise; a suppressed call or a failed hand-off writes none.
C35_RecordPerDispatch ==
    [][ IsAlertCallStep =>
          LET r == Last(alert_log')
          IN  /\ ~r.ret => alert_table' = alert_table
              /\ r.ret =>
                    \E severity \in Severities :
                        /\ alert_table' \in
                               {alert_table,
                                Append(alert_table, AlertRow(r, severity))}
                        /\ SendAlert(r.camera_id, r.alert_type, severity,
                                     "ok", TRUE)
                           => alert_table'
                                  = Append(alert_table, AlertRow(r, severity))
      ]_vars

\* A dispatched call left its row; a suppressed call and a failed hand-off
\* after it left none
C35_Witness ==
    /\ Len(alert_log) = 3
    /\ alert_log[1].ret
    /\ ~alert_log[2].handed
    /\ alert_log[3].handed /\ ~alert_log[3].ret
    /\ alert_table = <<AlertRow(alert_log[1], "high")>>

-----------------------------------------------------------------------------
(* More claims about the analytics engine, checked under SpecAnalytics *)

\* This step is a get_analytics call whose history read raised
IsFailedQueryStep ==
    /\ IsQueryStep
    /\ ~analytics_last'.from_cache
    /\ analytics_last'.fail = "history"

\* C40: a get_analytics call whose recomputation fails returns the empty
\* result and leaves the cache as it was; no cache entry ever holds a failed
\* computation, and no call served from the cache returns one.
C40_FailureNotCached ==
    /\ [][IsFailedQueryStep =>
              /\ analytics_last'.data = EmptyDict
              /\ cache' = cache]_vars
    /\ [](\A k \in DOMAIN cache : cache[k].data # EmptyDict)
    /\ [](analytics_last.op = "get_analytics" /\ analytics_last.from_cache
              => analytics_last.data # EmptyDict)

\* A failed call for a period that has an entry in the cache: the entry is
\* still there
C40_Witness ==
    /\ analytics_last.op = "get_analytics"
    /\ analytics_last.fail = "history"
    /\ ~analytics_last.from_cache
    /\ analytics_last.data = EmptyDict
    /\ CacheKey(analytics_last.period) \in DOMAIN cache
    /\ cache[CacheKey(analytics_last.period)].timestamp < now

-----------------------------------------------------------------------------
(* MQTTClient: connect, disconnect and the connection callbacks.  The broker
   and the network library are the environment: a connect() either raises or
   opens a link, an open link is answered by on_connect, and a link that is
   refused or lost is reported once by on_disconnect with a code other than 0.
   The client object is set up (start_services connects only when a broker is
   configured). *)

\* self.max_reconnect_attempts and self.auto_reconnect, set in __init__
max_reconnect_attempts == 10
auto_reconnect == TRUE

\* The body of connect() past the client check: the attempt is counted, then
\* client.connect either raises (return False) or opens the link and the
\* network loop is started (return True)
ConnectBody(by, raised) ==
    /\ connection_attempts' = connection_attempts + 1
    /\ attempts_since_success' = attempts_since_success + 1
    /\ mqtt_link' = IF raised THEN "down" ELSE "pending"
    /\ connect_last' = [called |-> TRUE, by |-> by, raised |-> raised]
    /\ UNCHANGED mqtt_is_connected

\* start_services: the one connect() the program itself calls
Connect(raised) ==
    /\ mqtt_caller = "none"
    /\ mqtt_caller' = "connected"
    /\ ConnectBody("caller", raised)
    /\ UNCHANGED <<now, alertVars, alert_table, analyticsVars, detectorVars,
                   loopVars, threadVars, cameraVars, engineVars,
                   reconnect_timers>>

\* _on_connect: the counter after the callback
AttemptsAfterConnect(attempts, rc) == IF rc = 0 THEN 0 ELSE attempts

\* _on_connect(rc), called when the broker answers an open link
OnConnect(rc) ==
    /\ mqtt_link = "pending"
    /\ mqtt_is_connected' = (rc = 0)
    /\ connection_attempts' = AttemptsAfterConnect(connection_attempts, rc)
    /\ attempts_since_success' = AttemptsAfterConnect(attempts_since_success, rc)
    /\ mqtt_link' = IF rc = 0 THEN "up" ELSE "refused"
    /\ UNCHANGED <<now, alertVars, alert_table, analyticsVars, detectorVars,
                   loopVars, threadVars, cameraVars, engineVars,
                   reconnect_timers, mqtt_caller, connect_last>>

\* _on_disconnect: the auto-reconnect branch starts one Timer that will call
\* connect, unless the counter has reached the maximum
TimersAfterDisconnect_NoCap(timers, attempts, rc) ==
    IF auto_reconnect /\ rc # 0 THEN timers + 1 ELSE timers
TimersAfterDisconnect(timers, attempts, rc) ==
    IF auto_reconnect /\ rc # 0 /\ attempts < max_reconnect_attempts
    THEN timers + 1
    ELSE timers

\* _on_disconnect(rc) for a link that was refused or lost
OnDisconnect(rc) ==
    /\ rc # 0
    /\ mqtt_link \in {"pending", "refused", "up"}
    /\ mqtt_is_connected' = FALSE
    /\ mqtt_link' = "down"
    /\ reconnect_timers' =
           TimersAfterDisconnect(reconnect_timers, connection_attempts, rc)
    /\ UNCHANGED <<now, alertVars, alert_table, analyticsVars, detectorVars,
                   loopVars, threadVars, cameraVars, engineVars,
                   connection_attempts, mqtt_caller, attempts_since_success,
                   connect_last>>

\* disconnect(): loop_stop, client.disconnect (which reports the requested
\* close with code 0), is_connected = False.  A Timer that was started
\* earlier is not cancelled.
Disconnect ==
    /\ mqtt_caller = "connected"
    /\ mqtt_caller' = "disconnected"
    /\ mqtt_is_connected' = FALSE
    /\ mqtt_link' = "down"
    /\ reconnect_timers' =
           TimersAfterDisconnect(reconnect_timers, connection_attempts, 0)
    /\ UNCHANGED <<now, alertVars, alert_table, analyticsVars, detectorVars,
                   loopVars, threadVars, cameraVars, engineVars,
                   connection_attempts, attempts_since_success, connect_last>>

\* The Timer started by _on_disconnect fires: it calls connect()
TimerFires(raised) ==
    /\ reconnect_timers > 0
    /\ reconnect_timers' = reconnect_timers - 1
    /\ ConnectBody("timer", raised)
    /\ UNCHANGED <<now, alertVars, alert_table, analyticsVars, detectorVars,
                   loopVars, threadVars, cameraVars, engineVars, mqtt_caller>>

\* MQTTClient.__init__, with the other components untouched
InitMqtt ==
    /\ now = 0
    /\ AlertAtRest
    /\ AnalyticsAtRest
    /\ DetectorAtRest
    /\ buffer_size = 1
    /\ config_active = [c \in Cameras |-> TRUE]
    /\ CamerasAtRest
    /\ queue_size = 1
    /\ EngineAtRest
    /\ ThreadsAtRest
    /\ MqttAtRest
    /\ LoopsAtRest

\* The return codes the callbacks are called with are 0 (success for
\* on_connect, a requested close for on_disconnect) and 1 (any other code)
NextMqtt ==
    \/ \E raised \in BOOLEAN : Connect(raised)
    \/ \E rc \in {0, 1} : OnConnect(rc)
    \/ \E rc \in {0, 1} : OnDisconnect(rc)
    \/ Disconnect
    \/ \E raised \in BOOLEAN : TimerFires(raised)

SpecMqtt == InitMqtt /\ [][NextMqtt]_vars

-----------------------------------------------------------------------------
(* Claims about the MQTT client, checked under SpecMqtt *)

\* This step is a call of connect()
IsConnectAttempt == attempts_since_success' = attempts_since_success + 1

\* C37: the connect attempts made since the last successful connection never
\* number more than max_reconnect_attempts; an unexpected disconnect that
\* finds the counter at the maximum starts no timer, so no attempt is pending
\* once the maximum is reached; a successful connection sets the counter to 0.
C37_AttemptsCapped ==
    /\ [](/\ attempts_since_success <= max_reconnect_attempts
          /\ connection_attempts = attempts_since_success
          /\ connection_attempts >= max_reconnect_attempts
                 => reconnect_timers = 0)
    /\ [][ /\ connection_attempts >= max_reconnect_attempts
                 => reconnect_timers' = reconnect_timers
           /\ (~mqtt_is_connected /\ mqtt_is_connected')
                 => connection_attempts' = 0 ]_vars

\* The last permitted attempt was refused and reported: nothing is pending
C37_Witness ==
    /\ connection_attempts = max_reconnect_attempts
    /\ connect_last = [called |-> TRUE, by |-> "timer", raised |-> FALSE]
    /\ mqtt_link = "down"
    /\ mqtt_caller = "connected"
    /\ reconnect_timers = 0

\* C38: after an unexpected disconnect the client keeps retrying until it is
\* connected or max_reconnect_attempts attempts have been made: while the
\* program runs, a reconnect attempt that left the client without a link and
\* without a pending timer was the last one allowed.
C38_RetriesUntilCap ==
    ( /\ mqtt_caller = "connected"
      /\ connect_last.by = "timer"
      /\ mqtt_link = "down"
      /\ reconnect_timers = 0 )
    => connection_attempts >= max_reconnect_attempts

\* C39: after disconnect() the client calls connect() no more and
\* is_connected stays false.
C39_QuietAfterDisconnect ==
    [][ mqtt_caller = "disconnected"
            => ~IsConnectAttempt /\ ~mqtt_is_connected' ]_vars

-----------------------------------------------------------------------------
(* FaceMaskDetectionSystem.start_processing_loop, next to the capture loops *)

\* One pass of the while loop.  The first statement of the try block calls
\* self.camera_manager.get_active_frames(); CameraManager defines no such
\* method, so the attribute lookup raises AttributeError.  The handler for
\* Exception logs it and sleeps one second: add_frame and get_results are not
\* reached, and no camera buffer is read.
ProcessingLoopPass ==
    /\ loop_passes < MaxPasses
    /\ loop_passes' = loop_passes + 1
    /\ loop_errors' = loop_errors + 1
    /\ UNCHANGED <<now, alertVars, alert_table, analyticsVars, detectorVars,
                   mqttVars, threadVars, cameraVars, engineVars, failed_reads>>

NextLoop == StreamStart \/ StreamStop \/ StreamCapture \/ ProcessingLoopPass

SpecLoop == InitCamera /\ [][NextLoop]_vars

-----------------------------------------------------------------------------
(* Claims about the processing loop, checked under SpecLoop *)

\* C36: every pass of the processing loop completes without raising, and it
\* takes the next frame of each running camera that has one buffered and
\* offers it to add_frame.
C36_LoopOffersFrames ==
    [][ loop_passes' = loop_passes + 1 =>
            /\ loop_errors' = loop_errors
            /\ \A c \in Cameras :
                   (is_running[c] /\ frame_queue[c] # <<>>) =>
                       /\ frames_pulled'[c] = frames_pulled[c] + 1
                       /\ frames_submitted' > frames_submitted ]_vars

=============================================================================
